---- MODULE Spec2Model ----
(***************************************************************************)
(* Ledger transaction engine of walletapp: the package-level Deposit,      *)
(* Withdraw and Transfer of internal/services/wallet_service.go running    *)
(* as concurrent requests against the PostgreSQL store reached through     *)
(* the repositories package.                                               *)
(*                                                                         *)
(* Amounts and balances are integers counted in mills (1/1000 of the       *)
(* currency unit), so that the float64 amount of a request and the         *)
(* NUMERIC(20,2) value kept at rest are different things: the store        *)
(* rounds what it is given to whole cents.                                 *)
(*                                                                         *)
(* The store is PostgreSQL at its default isolation level READ COMMITTED:  *)
(* a plain SELECT takes no row lock and returns the committed row, an      *)
(* UPDATE takes the row's write lock and keeps it until the transaction    *)
(* commits or rolls back, a second UPDATE of a locked row waits, and a     *)
(* cycle of waiting transactions is broken by the deadlock detector,       *)
(* which makes the statement of one of them fail.                          *)
(***************************************************************************)
EXTENDS Integers, Sequences, FiniteSets, TLC

\* ------------------------------------------------------------------ bounds
MaxFaults == 1    \* store failures injected in one behaviour
MaxAmt == 1       \* largest requested amount, in cents
MaxBal == 1       \* largest initial balance, in cents

\* --------------------------------------------------------------- constants
Cent == 10        \* mills per cent: the scale of NUMERIC(20,2)
MaxLimit == 1000000   \* the largest amount the transfer handler lets through, in units

Procs == {"p1", "p2"}          \* request goroutines, one call each
Users == {1, 2, 3}             \* user identifiers, ordered
InitialWallets == {1, 2}       \* users that own a wallet row; user 3 has none
Amounts == {0, 4} \cup {Cent * k : k \in 1..MaxAmt}

NoTx == "none"
Nil == "nil"
NoUser == 0

\* error values of the service
ErrNonPositive == "amount must be positive"
ErrSelfTransfer == "cannot transfer to self"
ErrInsufficient == "insufficient balance"
ErrNoRows == "no rows in result set"
ErrStore == "store failure"
ErrDeadlock == "deadlock detected"

\* models.TransactionType
TransactionTypeDeposit == "DEPOSIT"
TransactionTypeWithdraw == "WITHDRAW"
TransactionTypeTransferIn == "TRANSFER_IN"
TransactionTypeTransferOut == "TRANSFER_OUT"

VARIABLES
    balance,      \* wallets table, committed: user -> balance (domain: users owning a wallet)
    ledger,       \* transactions table, committed: sequence of records
    rowLock,      \* wallet row -> transaction holding its write lock, or NoTx
    txStatus,     \* per request: "none", "open" or "aborted" (a statement failed on the server)
    txWrites,     \* per request: uncommitted balance updates, user -> new balance
    txRecs,       \* per request: uncommitted inserted records
    call,         \* per request: [op, from, to, amount]
    pc,           \* per request: position in the function
    err,          \* per request: the function's err variable read by the deferred closure
    ret,          \* per request: the error value returned, Nil for success, "" before return
    fromWallet,   \* per request: Balance of wallet / fromWallet as held by the function
    toWallet,     \* per request: Balance of toWallet as held by the function
    closed,       \* per request: how the deferred closure closed the transaction
    touched,      \* per request: wallet rows accessed through the transaction, in order
    applied,      \* per request: what its last unit of work made durable
    insertErr,    \* per request: whether a CreateTransactionTx error was dropped
    initBalance,  \* the balances the behaviour started from
    faults,       \* store failures injected so far
    okDeposited,  \* sum of the amounts of deposits that returned success
    okWithdrawn,  \* sum of the amounts of withdrawals that returned success
    users,        \* users table: set of rows [id, email, username]
    wallets,      \* wallets table, identity and ownership: set of rows [id, user_id]
    req,          \* per request: the CreateUserRequest [email, username]
    user,         \* per request: the id of the user row CreateUser returned
    result,       \* the last read request, what it returned, the committed state it
                  \* read, and whether it repeated the request before it: [req, val, at, n]
    cancelled,    \* per request: whether its context has been cancelled
    clock,        \* the store's clock, the value of NOW() for a transaction starting now
    txStart,      \* per request: the start time of its transaction
    createdAt     \* created_at of the committed records, aligned with ledger

storeVars == <<balance, ledger, rowLock, txStatus, txWrites, txRecs>>
localVars == <<call, pc, err, ret, fromWallet, toWallet, closed, touched>>
\* what the wallet operations never change, and what only Begin (txStart) or
\* the end of a transaction (createdAt) changes
roVars == <<initBalance, users, wallets, req, user, result, cancelled, clock>>
keptVars == <<roVars, txStart, createdAt>>
ghostVars == <<applied, insertErr, faults, okDeposited, okWithdrawn, keptVars>>
vars == <<balance, ledger, rowLock, txStatus, txWrites, txRecs,
          call, pc, err, ret, fromWallet, toWallet, closed, touched,
          applied, insertErr, initBalance, faults, okDeposited, okWithdrawn,
          users, wallets, req, user, result, cancelled, clock, txStart, createdAt>>

\* ----------------------------------------------------------------- helpers
\* NUMERIC(20,2): a value is rounded to whole cents, half away from zero
RoundNumeric(x) ==
    IF x >= 0 THEN ((x + (Cent \div 2)) \div Cent) * Cent
              ELSE 0 - (((0 - x) + (Cent \div 2)) \div Cent) * Cent

NoWrites == [u \in {} |-> 0]
NothingApplied == [balances |-> {}, types |-> {}]
NoCall == [op |-> "none", from |-> NoUser, to |-> NoUser, amount |-> 0]
NoRequest == [email |-> 0, username |-> 0]
NoResult ==
    [req |-> <<>>, val |-> [err |-> Nil, rows |-> <<>>],
     at |-> [balance |-> <<>>, ledger |-> <<>>, createdAt |-> <<>>], n |-> 0]

\* amount <= 0 is the only validation of the service functions
NonPositive(amount) == amount <= 0

\* the balance test of Withdraw and Transfer; the lax variant only refuses a
\* wallet that is already overdrawn
InsufficientBalanceLax(bal, amount) == bal < 0
InsufficientBalance(bal, amount) == bal < amount

\* outcomes of one store call: it works, or (while failures may still be
\* injected) it fails
StoreOutcomes == IF faults < MaxFaults THEN {"ok", "fail"} ELSE {"ok"}

\* outcomes of a store call made with p's context: once the context is
\* cancelled the call returns the context's error without reaching the store
Outcomes(p) == IF cancelled[p] THEN {"fail"} ELSE StoreOutcomes

\* a failure that counts as an injected store failure
Injected(p, out) == IF out = "fail" /\ ~cancelled[p] THEN 1 ELSE 0

\* ------------------------------------------------------------------- Init
\* the state after start-up, with the wallets table holding b and f store
\* failures already spent
InitWith(b, f) ==
    /\ balance = b
    /\ initBalance = b
    /\ ledger = <<>>
    /\ rowLock = [u \in Users |-> NoTx]
    /\ txStatus = [p \in Procs |-> "none"]
    /\ txWrites = [p \in Procs |-> NoWrites]
    /\ txRecs = [p \in Procs |-> <<>>]
    /\ call = [p \in Procs |-> NoCall]
    /\ pc = [p \in Procs |-> "idle"]
    /\ err = [p \in Procs |-> Nil]
    /\ ret = [p \in Procs |-> ""]
    /\ fromWallet = [p \in Procs |-> 0]
    /\ toWallet = [p \in Procs |-> 0]
    /\ closed = [p \in Procs |-> "none"]
    /\ touched = [p \in Procs |-> <<>>]
    /\ applied = [p \in Procs |-> NothingApplied]
    /\ insertErr = [p \in Procs |-> FALSE]
    /\ faults = f
    /\ okDeposited = 0
    /\ okWithdrawn = 0
    /\ users = {[id |-> u, email |-> u, username |-> u] : u \in DOMAIN b}
    /\ wallets = {[id |-> u, user_id |-> u] : u \in DOMAIN b}
    /\ req = [p \in Procs |-> NoRequest]
    /\ user = [p \in Procs |-> NoUser]
    /\ result = NoResult
    /\ cancelled = [p \in Procs |-> FALSE]
    /\ clock = 0
    /\ txStart = [p \in Procs |-> 0]
    /\ createdAt = <<>>

Init == InitWith([u \in InitialWallets |-> Cent * MaxBal], 0)

\* ------------------------------------------------------- entering a call
\* a request goroutine enters a service function, once: the handler answers
\* and the goroutine ends when the function has returned
\* a function that opens its unit of work, registers the deferred closure
\* and only then validates
EnterValidateLate(p, op, from, to, amount, rejected) ==
    /\ pc[p] = "idle"
    /\ call' = [call EXCEPT ![p] = [op |-> op, from |-> from, to |-> to, amount |-> amount]]
    /\ IF rejected = Nil
          THEN /\ pc' = [pc EXCEPT ![p] = "begin"]
               /\ UNCHANGED <<ret, err, txStatus>>
          ELSE /\ pc' = [pc EXCEPT ![p] = "ret"]
               /\ ret' = [ret EXCEPT ![p] = rejected]
               /\ err' = [err EXCEPT ![p] = rejected]
               /\ txStatus' = [txStatus EXCEPT ![p] = "open"]
    /\ UNCHANGED <<balance, ledger, rowLock, txWrites, txRecs>>
    /\ UNCHANGED <<fromWallet, toWallet, closed, touched>>
    /\ UNCHANGED <<applied, insertErr, keptVars, faults, okDeposited, okWithdrawn>>

Enter(p, op, from, to, amount, rejected) ==
    /\ pc[p] = "idle"
    /\ call' = [call EXCEPT ![p] = [op |-> op, from |-> from, to |-> to, amount |-> amount]]
    /\ IF rejected = Nil
          THEN pc' = [pc EXCEPT ![p] = "begin"] /\ UNCHANGED ret
          ELSE pc' = [pc EXCEPT ![p] = "done"] /\ ret' = [ret EXCEPT ![p] = rejected]
    /\ UNCHANGED <<storeVars, err, fromWallet, toWallet, closed, touched>>
    /\ UNCHANGED <<applied, insertErr, keptVars, faults, okDeposited, okWithdrawn>>

\* Deposit, lines 74-77
DepositCall(p) ==
    /\ \E u \in Users, a \in Amounts :
        Enter(p, "Deposit", u, NoUser, a,
              IF NonPositive(a) THEN ErrNonPositive ELSE Nil)

\* Withdraw, lines 109-112
WithdrawCall(p) ==
    /\ \E u \in Users, a \in Amounts :
        Enter(p, "Withdraw", u, NoUser, a,
              IF NonPositive(a) THEN ErrNonPositive ELSE Nil)

\* a Transfer that does not compare the two users
TransferCallNoSelfCheck(p) ==
    /\ \E f \in Users, t \in Users, a \in Amounts :
        Enter(p, "Transfer", f, t, a,
              IF NonPositive(a) THEN ErrNonPositive ELSE Nil)

\* Transfer, lines 15-21
TransferCall(p) ==
    /\ \E f \in Users, t \in Users, a \in Amounts :
        Enter(p, "Transfer", f, t, a,
              IF NonPositive(a) THEN ErrNonPositive
              ELSE IF f = t THEN ErrSelfTransfer ELSE Nil)

\* a Begin whose failure is met after the defer is registered: the closure
\* runs on the way out
BeginDeferFirst(p) ==
    /\ pc[p] = "begin"
    /\ \E out \in StoreOutcomes :
        IF out = "ok"
        THEN /\ txStatus' = [txStatus EXCEPT ![p] = "open"]
             /\ txStart' = [txStart EXCEPT ![p] = clock]
             /\ pc' = [pc EXCEPT ![p] = IF call[p].op = "Transfer" THEN "getFrom" ELSE "get"]
             /\ UNCHANGED <<ret, faults>>
        ELSE /\ ret' = [ret EXCEPT ![p] = ErrStore]
             /\ pc' = [pc EXCEPT ![p] = "ret"]
             /\ faults' = faults + 1
             /\ UNCHANGED <<txStatus, txStart>>
    /\ UNCHANGED <<balance, ledger, rowLock, txWrites, txRecs>>
    /\ UNCHANGED <<call, err, fromWallet, toWallet, closed, touched>>
    /\ UNCHANGED <<applied, insertErr, roVars, createdAt, okDeposited, okWithdrawn>>

\* pool.Begin: on failure the function returns before the defer is registered
Begin(p) ==
    /\ pc[p] = "begin"
    /\ \E out \in StoreOutcomes :
        IF out = "ok"
        THEN /\ txStatus' = [txStatus EXCEPT ![p] = "open"]
             /\ txStart' = [txStart EXCEPT ![p] = clock]
             /\ pc' = [pc EXCEPT ![p] = IF call[p].op = "Transfer" THEN "getFrom" ELSE "get"]
             /\ UNCHANGED <<ret, faults>>
        ELSE /\ ret' = [ret EXCEPT ![p] = ErrStore]
             /\ pc' = [pc EXCEPT ![p] = "done"]
             /\ faults' = faults + 1
             /\ UNCHANGED <<txStatus, txStart>>
    /\ UNCHANGED <<balance, ledger, rowLock, txWrites, txRecs>>
    /\ UNCHANGED <<call, err, fromWallet, toWallet, closed, touched>>
    /\ UNCHANGED <<applied, insertErr, roVars, createdAt, okDeposited, okWithdrawn>>

\* ------------------------------------------------------ store primitives
\* the error of a SELECT of the wallet row of user u
SelectErr(u, out) ==
    IF out = "fail" THEN ErrStore
    ELSE IF u \notin DOMAIN balance THEN ErrNoRows
    ELSE Nil

\* the positions at which a request issues an UPDATE, and the row it updates
UpdatePcs == {"upd", "updFrom", "updTo"}
UpdateTarget(p) == IF pc[p] = "updTo" THEN call[p].to ELSE call[p].from

\* p's UPDATE waits for the write lock another transaction holds
Blocked(p) ==
    /\ pc[p] \in UpdatePcs
    /\ rowLock[UpdateTarget(p)] \notin {NoTx, p}

\* p and the holder of the lock p waits for wait for each other
DeadlockCycle(p) ==
    /\ Blocked(p)
    /\ Blocked(rowLock[UpdateTarget(p)])
    /\ rowLock[UpdateTarget(rowLock[UpdateTarget(p)])] = p

\* a SELECT that waits while another transaction holds a lock on any row of
\* the table
GetWalletWithTableLock(p, u, out) ==
    /\ \A w \in Users : rowLock[w] \in {NoTx, p}
    /\ faults' = faults + Injected(p, out)
    /\ touched' = [touched EXCEPT ![p] =
                     IF SelectErr(u, out) = Nil THEN Append(@, u) ELSE @]
    /\ UNCHANGED <<storeVars, call, closed>>
    /\ UNCHANGED <<applied, insertErr, keptVars, okDeposited, okWithdrawn>>

\* GetWalletByUserIDTx: a plain SELECT inside the transaction. It takes no
\* lock, never waits, and returns the committed row.
GetWalletByUserIDTx(p, u, out) ==
    /\ faults' = faults + Injected(p, out)
    /\ touched' = [touched EXCEPT ![p] =
                     IF SelectErr(u, out) = Nil THEN Append(@, u) ELSE @]
    /\ UNCHANGED <<storeVars, call, closed>>
    /\ UNCHANGED <<applied, insertErr, keptVars, okDeposited, okWithdrawn>>

\* an UPDATE of wallets without its WHERE user_id = $2
UpdateEveryWalletTx(p, u, newBalance, out) ==
    /\ \/ /\ rowLock[u] \in {NoTx, p}
          /\ out \in Outcomes(p)
          /\ faults' = faults + Injected(p, out)
          /\ IF out = "ok"
             THEN /\ rowLock' = [rowLock EXCEPT ![u] = p]
                  /\ txWrites' = [txWrites EXCEPT ![p] =
                                   [w \in DOMAIN balance |-> RoundNumeric(newBalance)]]
                  /\ UNCHANGED <<err, ret>>
             ELSE /\ err' = [err EXCEPT ![p] = ErrStore]
                  /\ ret' = [ret EXCEPT ![p] = ErrStore]
                  /\ UNCHANGED <<rowLock, txWrites>>
       \/ /\ DeadlockCycle(p)
          /\ ~cancelled[p]
          /\ out = "deadlock"
          /\ err' = [err EXCEPT ![p] = ErrDeadlock]
          /\ ret' = [ret EXCEPT ![p] = ErrDeadlock]
          /\ UNCHANGED <<rowLock, txWrites, faults>>
       \/ /\ rowLock[u] \notin {NoTx, p}
          /\ cancelled[p]
          /\ out = "fail"
          /\ err' = [err EXCEPT ![p] = ErrStore]
          /\ ret' = [ret EXCEPT ![p] = ErrStore]
          /\ UNCHANGED <<rowLock, txWrites, faults>>
    /\ touched' = [touched EXCEPT ![p] = IF out = "ok" THEN Append(@, u) ELSE @]
    /\ UNCHANGED <<balance, ledger, txStatus, txRecs, call, closed>>
    /\ UNCHANGED <<applied, insertErr, keptVars, okDeposited, okWithdrawn>>

\* UpdateWalletBalanceTx: UPDATE wallets SET balance = newBalance. It takes
\* the row's write lock, or waits while another transaction holds it; the
\* deadlock detector fails the statement of a transaction in a waiting cycle,
\* and a cancelled context ends the wait with an error.
\* The effect on the store and on err; the caller sets pc and its locals.
UpdateWalletBalanceTx(p, u, newBalance, out) ==
    /\ \/ /\ rowLock[u] \in {NoTx, p}
          /\ out \in Outcomes(p)
          /\ faults' = faults + Injected(p, out)
          /\ IF out = "ok"
             THEN /\ rowLock' = [rowLock EXCEPT ![u] = p]
                  /\ txWrites' = [txWrites EXCEPT ![p] = (u :> RoundNumeric(newBalance)) @@ @]
                  /\ UNCHANGED <<err, ret>>
             ELSE /\ err' = [err EXCEPT ![p] = ErrStore]
                  /\ ret' = [ret EXCEPT ![p] = ErrStore]
                  /\ UNCHANGED <<rowLock, txWrites>>
       \/ /\ DeadlockCycle(p)
          /\ ~cancelled[p]
          /\ out = "deadlock"
          /\ err' = [err EXCEPT ![p] = ErrDeadlock]
          /\ ret' = [ret EXCEPT ![p] = ErrDeadlock]
          /\ UNCHANGED <<rowLock, txWrites, faults>>
       \/ /\ rowLock[u] \notin {NoTx, p}
          /\ cancelled[p]
          /\ out = "fail"
          /\ err' = [err EXCEPT ![p] = ErrStore]
          /\ ret' = [ret EXCEPT ![p] = ErrStore]
          /\ UNCHANGED <<rowLock, txWrites, faults>>
    /\ touched' = [touched EXCEPT ![p] = IF out = "ok" THEN Append(@, u) ELSE @]
    /\ UNCHANGED <<balance, ledger, txStatus, txRecs, call, closed>>
    /\ UNCHANGED <<applied, insertErr, keptVars, okDeposited, okWithdrawn>>

\* CreateTransactionTx: INSERT INTO transactions, wallet_id REFERENCES
\* wallets(id): the insert for a wallet that is gone fails on the server. A
\* statement that fails on
\* the server leaves the transaction aborted (every later statement fails and
\* COMMIT rolls back); one that fails in the client leaves it usable.
CreateTransactionTx(p, t) ==
    /\ \/ /\ txStatus[p] = "open"
          /\ ~cancelled[p]
          /\ t.wallet \in DOMAIN balance
          /\ txRecs' = [txRecs EXCEPT ![p] = Append(@, [t EXCEPT !.amount = RoundNumeric(@)])]
          /\ UNCHANGED <<txStatus, faults, insertErr>>
       \/ /\ txStatus[p] = "open"
          /\ ~cancelled[p]
          /\ t.wallet \notin DOMAIN balance
          /\ txStatus' = [txStatus EXCEPT ![p] = "aborted"]
          /\ insertErr' = [insertErr EXCEPT ![p] = TRUE]
          /\ UNCHANGED <<txRecs, faults>>
       \/ /\ txStatus[p] = "open"
          /\ cancelled[p]
          /\ insertErr' = [insertErr EXCEPT ![p] = TRUE]
          /\ UNCHANGED <<txStatus, txRecs, faults>>
       \/ /\ txStatus[p] = "open"
          /\ ~cancelled[p]
          /\ faults < MaxFaults
          /\ faults' = faults + 1
          /\ \E st \in {"open", "aborted"} : txStatus' = [txStatus EXCEPT ![p] = st]
          /\ insertErr' = [insertErr EXCEPT ![p] = TRUE]
          /\ UNCHANGED txRecs
       \/ /\ txStatus[p] = "aborted"
          /\ insertErr' = [insertErr EXCEPT ![p] = TRUE]
          /\ UNCHANGED <<txStatus, txRecs, faults>>
    /\ UNCHANGED <<balance, ledger, rowLock, txWrites, call, closed, touched>>
    /\ UNCHANGED <<applied, keptVars, okDeposited, okWithdrawn>>

\* an end of transaction that rewrites the transactions table with the
\* records of the transaction
EndTxRewrite(p, durable) ==
    /\ balance' = IF durable
                  THEN [u \in DOMAIN balance |->
                          IF u \in DOMAIN txWrites[p] THEN txWrites[p][u] ELSE balance[u]]
                  ELSE balance
    /\ ledger' = IF durable THEN txRecs[p] ELSE ledger
    /\ createdAt' = IF durable
                    THEN [i \in DOMAIN txRecs[p] |-> txStart[p]]
                    ELSE createdAt
    /\ applied' = [applied EXCEPT ![p] =
                     IF durable
                     THEN [balances |-> DOMAIN txWrites[p],
                           types |-> {txRecs[p][i].type : i \in DOMAIN txRecs[p]}]
                     ELSE NothingApplied]
    /\ rowLock' = [u \in Users |-> IF rowLock[u] = p THEN NoTx ELSE rowLock[u]]
    /\ txStatus' = [txStatus EXCEPT ![p] = "none"]
    /\ txWrites' = [txWrites EXCEPT ![p] = NoWrites]
    /\ txRecs' = [txRecs EXCEPT ![p] = <<>>]

\* what the store is after transaction p ended, durable = its writes were kept
EndTx(p, durable) ==
    /\ balance' = IF durable
                  THEN [u \in DOMAIN balance |->
                          IF u \in DOMAIN txWrites[p] THEN txWrites[p][u] ELSE balance[u]]
                  ELSE balance
    /\ ledger' = IF durable THEN ledger \o txRecs[p] ELSE ledger
    /\ createdAt' = IF durable
                    THEN createdAt \o [i \in DOMAIN txRecs[p] |-> txStart[p]]
                    ELSE createdAt
    /\ applied' = [applied EXCEPT ![p] =
                     IF durable
                     THEN [balances |-> DOMAIN txWrites[p],
                           types |-> {txRecs[p][i].type : i \in DOMAIN txRecs[p]}]
                     ELSE NothingApplied]
    /\ rowLock' = [u \in Users |-> IF rowLock[u] = p THEN NoTx ELSE rowLock[u]]
    /\ txStatus' = [txStatus EXCEPT ![p] = "none"]
    /\ txWrites' = [txWrites EXCEPT ![p] = NoWrites]
    /\ txRecs' = [txRecs EXCEPT ![p] = <<>>]

\* tx.Rollback
Rollback(p) ==
    /\ EndTx(p, FALSE)
    /\ closed' = [closed EXCEPT ![p] = "rollback"]
    /\ UNCHANGED faults

\* a tx.Commit that reaches the store whatever the state of the context
CommitIgnoresCancel(p) ==
    /\ closed' = [closed EXCEPT ![p] = "commit"]
    /\ \/ /\ txStatus[p] = "open"
          /\ EndTx(p, TRUE)
          /\ UNCHANGED faults
       \/ /\ txStatus[p] = "open"
          /\ faults < MaxFaults
          /\ faults' = faults + 1
          /\ EndTx(p, FALSE)
       \/ /\ txStatus[p] = "aborted"
          /\ EndTx(p, FALSE)
          /\ UNCHANGED faults

\* tx.Commit: its error is dropped by the deferred closure. COMMIT of an
\* aborted transaction rolls back; a COMMIT that fails keeps nothing, and
\* with a cancelled context COMMIT is not sent: the connection is closed with
\* the transaction open, and the store rolls it back.
Commit(p) ==
    /\ closed' = [closed EXCEPT ![p] = "commit"]
    /\ \/ /\ txStatus[p] = "open"
          /\ ~cancelled[p]
          /\ EndTx(p, TRUE)
          /\ UNCHANGED faults
       \/ /\ txStatus[p] = "open"
          /\ ~cancelled[p]
          /\ faults < MaxFaults
          /\ faults' = faults + 1
          /\ EndTx(p, FALSE)
       \/ /\ txStatus[p] = "open"
          /\ cancelled[p]
          /\ EndTx(p, FALSE)
          /\ UNCHANGED faults
       \/ /\ txStatus[p] = "aborted"
          /\ EndTx(p, FALSE)
          /\ UNCHANGED faults

\* a closure that commits on success but leaves the transaction open when
\* err is set
DeferredNoRollback(p) ==
    /\ pc[p] = "ret"
    /\ IF err[p] # Nil
       THEN UNCHANGED <<storeVars, applied, closed, faults, createdAt>>
       ELSE Commit(p)
    /\ pc' = [pc EXCEPT ![p] = "done"]
    /\ UNCHANGED <<okDeposited, okWithdrawn>>
    /\ UNCHANGED <<call, err, ret, fromWallet, toWallet, touched, insertErr, roVars, txStart>>

\* the deferred closure of Deposit, Withdraw and Transfer, and the return to
\* the caller: rollback when err is set, commit otherwise
Deferred(p) ==
    /\ pc[p] = "ret"
    /\ IF err[p] # Nil THEN Rollback(p) ELSE Commit(p)
    /\ pc' = [pc EXCEPT ![p] = "done"]
    /\ okDeposited' = okDeposited +
         (IF call[p].op = "Deposit" /\ ret[p] = Nil THEN call[p].amount ELSE 0)
    /\ okWithdrawn' = okWithdrawn +
         (IF call[p].op = "Withdraw" /\ ret[p] = Nil THEN call[p].amount ELSE 0)
    /\ UNCHANGED <<call, err, ret, fromWallet, toWallet, touched, insertErr, roVars, txStart>>

\* ------------------------------------------------------------- Deposit
\* a lookup whose error is dropped: a missing wallet reads as an empty one
DepositGetUnchecked(p) ==
    /\ pc[p] = "get" /\ call[p].op = "Deposit"
    /\ \E out \in Outcomes(p) :
        LET e == SelectErr(call[p].from, out) IN
        /\ GetWalletByUserIDTx(p, call[p].from, out)
        /\ fromWallet' = [fromWallet EXCEPT ![p] =
                             IF e = Nil THEN balance[call[p].from] ELSE 0]
        /\ pc' = [pc EXCEPT ![p] = "upd"]
        /\ UNCHANGED <<err, ret>>
    /\ UNCHANGED toWallet

\* lines 91-94: read the wallet
DepositGet(p) ==
    /\ pc[p] = "get" /\ call[p].op = "Deposit"
    /\ \E out \in Outcomes(p) :
        LET e == SelectErr(call[p].from, out) IN
        /\ GetWalletByUserIDTx(p, call[p].from, out)
        /\ IF e = Nil
           THEN /\ fromWallet' = [fromWallet EXCEPT ![p] = balance[call[p].from]]
                /\ pc' = [pc EXCEPT ![p] = "upd"]
                /\ UNCHANGED <<err, ret>>
           ELSE /\ err' = [err EXCEPT ![p] = e]
                /\ ret' = [ret EXCEPT ![p] = e]
                /\ pc' = [pc EXCEPT ![p] = "ret"]
                /\ UNCHANGED fromWallet
    /\ UNCHANGED toWallet

\* lines 95-100: newBalance := wallet.Balance + amount, written, then kept in wallet
DepositUpdate(p) ==
    /\ pc[p] = "upd" /\ call[p].op = "Deposit"
    /\ \E out \in {"ok", "fail", "deadlock"} :
        LET newBalance == fromWallet[p] + call[p].amount IN
        /\ UpdateWalletBalanceTx(p, call[p].from, newBalance, out)
        /\ pc' = [pc EXCEPT ![p] = IF out = "ok" THEN "ins" ELSE "ret"]
        /\ fromWallet' = [fromWallet EXCEPT ![p] = IF out = "ok" THEN newBalance ELSE @]
    /\ UNCHANGED toWallet

\* lines 101-106: the record is created, its error dropped, and nil returned
DepositInsert(p) ==
    /\ pc[p] = "ins" /\ call[p].op = "Deposit"
    /\ CreateTransactionTx(p, [wallet |-> call[p].from, type |-> TransactionTypeDeposit,
                               amount |-> call[p].amount, related |-> NoUser])
    /\ pc' = [pc EXCEPT ![p] = "ret"]
    /\ ret' = [ret EXCEPT ![p] = Nil]
    /\ UNCHANGED <<err, fromWallet, toWallet>>

\* ------------------------------------------------------------ Withdraw

\* a Withdraw whose insufficient balance return leaves without closing the
\* unit of work
WithdrawGetNoClose(p) ==
    /\ pc[p] = "get" /\ call[p].op = "Withdraw"
    /\ \E out \in Outcomes(p) :
        LET e == SelectErr(call[p].from, out) IN
        /\ GetWalletByUserIDTx(p, call[p].from, out)
        /\ IF e # Nil
           THEN /\ err' = [err EXCEPT ![p] = e]
                /\ ret' = [ret EXCEPT ![p] = e]
                /\ pc' = [pc EXCEPT ![p] = "ret"]
                /\ UNCHANGED fromWallet
           ELSE /\ fromWallet' = [fromWallet EXCEPT ![p] = balance[call[p].from]]
                /\ UNCHANGED err
                /\ IF InsufficientBalance(balance[call[p].from], call[p].amount)
                   THEN /\ ret' = [ret EXCEPT ![p] = ErrInsufficient]
                        /\ pc' = [pc EXCEPT ![p] = "done"]
                   ELSE /\ pc' = [pc EXCEPT ![p] = "upd"]
                        /\ UNCHANGED ret
    /\ UNCHANGED toWallet

\* lines 126-132: read the wallet and test the balance; the insufficient
\* balance error is returned without being assigned to err
WithdrawGet(p) ==
    /\ pc[p] = "get" /\ call[p].op = "Withdraw"
    /\ \E out \in Outcomes(p) :
        LET e == SelectErr(call[p].from, out) IN
        /\ GetWalletByUserIDTx(p, call[p].from, out)
        /\ IF e # Nil
           THEN /\ err' = [err EXCEPT ![p] = e]
                /\ ret' = [ret EXCEPT ![p] = e]
                /\ pc' = [pc EXCEPT ![p] = "ret"]
                /\ UNCHANGED fromWallet
           ELSE /\ fromWallet' = [fromWallet EXCEPT ![p] = balance[call[p].from]]
                /\ UNCHANGED err
                /\ IF InsufficientBalance(balance[call[p].from], call[p].amount)
                   THEN /\ ret' = [ret EXCEPT ![p] = ErrInsufficient]
                        /\ pc' = [pc EXCEPT ![p] = "ret"]
                   ELSE /\ pc' = [pc EXCEPT ![p] = "upd"]
                        /\ UNCHANGED ret
    /\ UNCHANGED toWallet

\* lines 133-138: newBalance := wallet.Balance - amount
WithdrawUpdate(p) ==
    /\ pc[p] = "upd" /\ call[p].op = "Withdraw"
    /\ \E out \in {"ok", "fail", "deadlock"} :
        LET newBalance == fromWallet[p] - call[p].amount IN
        /\ UpdateWalletBalanceTx(p, call[p].from, newBalance, out)
        /\ pc' = [pc EXCEPT ![p] = IF out = "ok" THEN "ins" ELSE "ret"]
        /\ fromWallet' = [fromWallet EXCEPT ![p] = IF out = "ok" THEN newBalance ELSE @]
    /\ UNCHANGED toWallet

\* lines 139-144
WithdrawInsert(p) ==
    /\ pc[p] = "ins" /\ call[p].op = "Withdraw"
    /\ CreateTransactionTx(p, [wallet |-> call[p].from, type |-> TransactionTypeWithdraw,
                               amount |-> call[p].amount, related |-> NoUser])
    /\ pc' = [pc EXCEPT ![p] = "ret"]
    /\ ret' = [ret EXCEPT ![p] = Nil]
    /\ UNCHANGED <<err, fromWallet, toWallet>>

\* ------------------------------------------------------------ Transfer
\* a source lookup whose error is dropped: a missing source wallet reads as
\* the zero Wallet
TransferGetFromUnchecked(p) ==
    /\ pc[p] = "getFrom"
    /\ \E out \in Outcomes(p) :
        LET e == SelectErr(call[p].from, out) IN
        /\ GetWalletByUserIDTx(p, call[p].from, out)
        /\ fromWallet' = [fromWallet EXCEPT ![p] =
                             IF e = Nil THEN balance[call[p].from] ELSE 0]
        /\ pc' = [pc EXCEPT ![p] = "getTo"]
        /\ UNCHANGED <<err, ret>>
    /\ UNCHANGED toWallet

\* lines 36-39: the source wallet is read first
TransferGetFrom(p) ==
    /\ pc[p] = "getFrom"
    /\ \E out \in Outcomes(p) :
        LET e == SelectErr(call[p].from, out) IN
        /\ GetWalletByUserIDTx(p, call[p].from, out)
        /\ IF e = Nil
           THEN /\ fromWallet' = [fromWallet EXCEPT ![p] = balance[call[p].from]]
                /\ pc' = [pc EXCEPT ![p] = "getTo"]
                /\ UNCHANGED <<err, ret>>
           ELSE /\ err' = [err EXCEPT ![p] = e]
                /\ ret' = [ret EXCEPT ![p] = e]
                /\ pc' = [pc EXCEPT ![p] = "ret"]
                /\ UNCHANGED fromWallet
    /\ UNCHANGED toWallet

\* lines 40-46: the destination wallet is read, then the source balance tested
TransferGetTo(p) ==
    /\ pc[p] = "getTo"
    /\ \E out \in Outcomes(p) :
        LET e == SelectErr(call[p].to, out) IN
        /\ GetWalletByUserIDTx(p, call[p].to, out)
        /\ IF e # Nil
           THEN /\ err' = [err EXCEPT ![p] = e]
                /\ ret' = [ret EXCEPT ![p] = e]
                /\ pc' = [pc EXCEPT ![p] = "ret"]
                /\ UNCHANGED toWallet
           ELSE /\ toWallet' = [toWallet EXCEPT ![p] = balance[call[p].to]]
                /\ UNCHANGED err
                /\ IF InsufficientBalance(fromWallet[p], call[p].amount)
                   THEN /\ ret' = [ret EXCEPT ![p] = ErrInsufficient]
                        /\ pc' = [pc EXCEPT ![p] = "ret"]
                   ELSE /\ pc' = [pc EXCEPT ![p] = "updFrom"]
                        /\ UNCHANGED ret
    /\ UNCHANGED fromWallet

\* a transfer that appends its records right after debiting the source
TransferUpdateFromThenRecords(p) ==
    /\ pc[p] = "updFrom"
    /\ \E out \in {"ok", "fail", "deadlock"} :
        /\ UpdateWalletBalanceTx(p, call[p].from, fromWallet[p] - call[p].amount, out)
        /\ pc' = [pc EXCEPT ![p] = IF out = "ok" THEN "insOut" ELSE "ret"]
    /\ UNCHANGED <<fromWallet, toWallet>>

\* lines 48-51: the source is debited
TransferUpdateFrom(p) ==
    /\ pc[p] = "updFrom"
    /\ \E out \in {"ok", "fail", "deadlock"} :
        /\ UpdateWalletBalanceTx(p, call[p].from, fromWallet[p] - call[p].amount, out)
        /\ pc' = [pc EXCEPT ![p] = IF out = "ok" THEN "updTo" ELSE "ret"]
    /\ UNCHANGED <<fromWallet, toWallet>>

\* lines 52-55: the destination is credited
TransferUpdateTo(p) ==
    /\ pc[p] = "updTo"
    /\ \E out \in {"ok", "fail", "deadlock"} :
        /\ UpdateWalletBalanceTx(p, call[p].to, toWallet[p] + call[p].amount, out)
        /\ pc' = [pc EXCEPT ![p] = IF out = "ok" THEN "insOut" ELSE "ret"]
    /\ UNCHANGED <<fromWallet, toWallet>>

\* lines 58-63: the TRANSFER_OUT record, its error dropped
TransferInsertOut(p) ==
    /\ pc[p] = "insOut"
    /\ CreateTransactionTx(p, [wallet |-> call[p].from, type |-> TransactionTypeTransferOut,
                               amount |-> call[p].amount, related |-> call[p].to])
    /\ pc' = [pc EXCEPT ![p] = "insIn"]
    /\ UNCHANGED <<err, ret, fromWallet, toWallet>>

\* lines 64-71: the TRANSFER_IN record, its error dropped, and nil returned
TransferInsertIn(p) ==
    /\ pc[p] = "insIn"
    /\ CreateTransactionTx(p, [wallet |-> call[p].to, type |-> TransactionTypeTransferIn,
                               amount |-> call[p].amount, related |-> call[p].from])
    /\ pc' = [pc EXCEPT ![p] = "ret"]
    /\ ret' = [ret EXCEPT ![p] = Nil]
    /\ UNCHANGED <<err, fromWallet, toWallet>>

\* ------------------------------------------------------------ behaviours
Next ==
    \E p \in Procs :
        \/ DepositCall(p) \/ WithdrawCall(p) \/ TransferCall(p)
        \/ Begin(p)
        \/ DepositGet(p) \/ DepositUpdate(p) \/ DepositInsert(p)
        \/ WithdrawGet(p) \/ WithdrawUpdate(p) \/ WithdrawInsert(p)
        \/ TransferGetFrom(p) \/ TransferGetTo(p)
        \/ TransferUpdateFrom(p) \/ TransferUpdateTo(p)
        \/ TransferInsertOut(p) \/ TransferInsertIn(p)
        \/ Deferred(p)

Spec == Init /\ [][Next]_vars

\* the operations called with amounts of whole cents, every goroutine being
\* scheduled again and again
FairCall(p) ==
    /\ \E op \in {"Deposit", "Withdraw", "Transfer"}, f \in Users, t \in Users,
          a \in {Cent * k : k \in 1..MaxAmt} :
         /\ op # "Transfer" => t = f
         /\ Enter(p, op, f, IF op = "Transfer" THEN t ELSE NoUser, a,
                  IF op = "Transfer" /\ f = t THEN ErrSelfTransfer ELSE Nil)

Step(p) ==
    \/ FairCall(p)
    \/ Begin(p)
    \/ DepositGet(p) \/ DepositUpdate(p) \/ DepositInsert(p)
    \/ WithdrawGet(p) \/ WithdrawUpdate(p) \/ WithdrawInsert(p)
    \/ TransferGetFrom(p) \/ TransferGetTo(p)
    \/ TransferUpdateFrom(p) \/ TransferUpdateTo(p)
    \/ TransferInsertOut(p) \/ TransferInsertIn(p)
    \/ Deferred(p)

FairNext == \E p \in Procs : Step(p)

SpecFair == Init /\ [][FairNext]_vars /\ \A p \in Procs : WF_vars(Step(p))

\* the same operations when the wallet of user 2 may be missing as well
MissingInit ==
    \E W \in {{1}, InitialWallets} : InitWith([u \in W |-> Cent * MaxBal], 0)

SpecMissing == MissingInit /\ [][Next]_vars

\* ---------------------------------------------------------- cancelling
\* the context of p's request is cancelled (the client went away, a deadline
\* passed) while p's unit of work is open; a context stays cancelled
Cancel(p) ==
    /\ txStatus[p] \in {"open", "aborted"}
    /\ ~cancelled[p]
    /\ cancelled' = [cancelled EXCEPT ![p] = TRUE]
    /\ UNCHANGED <<storeVars, localVars, applied, insertErr, faults, okDeposited,
                   okWithdrawn, initBalance, users, wallets, req, user, result, clock,
                   txStart, createdAt>>

CancelNext == \E p \in Procs : Step(p) \/ Cancel(p)

SpecCancel == Init /\ [][CancelNext]_vars

\* ------------------------------------------------------ creating users
ErrUniqueViolation == "duplicate key value violates unique constraint"
ErrEmailInUse == "email already in use"
ErrUsernameInUse == "username already in use"

\* the emails and usernames of the requests: 1 belongs to the user of the
\* first wallet, 3 to nobody
Emails == {1, 3}
Usernames == {1, 3}

\* what no step of a user creation reads or writes
userFrame ==
    <<ledger, rowLock, txStatus, txWrites, txRecs, err, fromWallet, toWallet,
      closed, touched, applied, insertErr, okDeposited, okWithdrawn,
      initBalance, result, cancelled, clock, txStart, createdAt>>

\* id ... DEFAULT uuid_generate_v4(): an id no row of the table has
NewID(rows) ==
    CHOOSE i \in 1..(Cardinality(rows) + 1) :
        /\ \A r \in rows : r.id # i
        /\ \A j \in 1..(i - 1) : \E r \in rows : r.id = j

EmailExists(email) == \E u \in users : u.email = email
UsernameExists(username) == \E u \in users : u.username = username

\* a request goroutine enters CreateUserWithWallet
CreateUserWithWallet(p) ==
    /\ pc[p] = "idle"
    /\ \E e \in Emails, n \in Usernames :
           req' = [req EXCEPT ![p] = [email |-> e, username |-> n]]
    /\ call' = [call EXCEPT ![p] = [NoCall EXCEPT !.op = "CreateUserWithWallet"]]
    /\ pc' = [pc EXCEPT ![p] = "createUser"]
    /\ UNCHANGED <<balance, users, wallets, user, ret, faults, userFrame>>

\* a request goroutine enters UserService.CreateUser
UserServiceCreateUser(p) ==
    /\ pc[p] = "idle"
    /\ \E e \in Emails, n \in Usernames :
           req' = [req EXCEPT ![p] = [email |-> e, username |-> n]]
    /\ call' = [call EXCEPT ![p] = [NoCall EXCEPT !.op = "CreateUser"]]
    /\ pc' = [pc EXCEPT ![p] = "isEmail"]
    /\ UNCHANGED <<balance, users, wallets, user, ret, faults, userFrame>>

\* exists, _ := s.repo.IsEmailExists(...): the error of the query is dropped,
\* and exists is false when the query failed
IsEmailExists(p) ==
    /\ pc[p] = "isEmail"
    /\ \E out \in StoreOutcomes :
          /\ faults' = faults + (IF out = "fail" THEN 1 ELSE 0)
          /\ IF out = "ok" /\ EmailExists(req[p].email)
                THEN /\ ret' = [ret EXCEPT ![p] = ErrEmailInUse]
                     /\ pc' = [pc EXCEPT ![p] = "done"]
                ELSE /\ pc' = [pc EXCEPT ![p] = "isUsername"]
                     /\ UNCHANGED ret
    /\ UNCHANGED <<balance, users, wallets, req, user, call, userFrame>>

IsUsernameExists(p) ==
    /\ pc[p] = "isUsername"
    /\ \E out \in StoreOutcomes :
          /\ faults' = faults + (IF out = "fail" THEN 1 ELSE 0)
          /\ IF out = "ok" /\ UsernameExists(req[p].username)
                THEN /\ ret' = [ret EXCEPT ![p] = ErrUsernameInUse]
                     /\ pc' = [pc EXCEPT ![p] = "done"]
                ELSE /\ pc' = [pc EXCEPT ![p] = "createUser"]
                     /\ UNCHANGED ret
    /\ UNCHANGED <<balance, users, wallets, req, user, call, userFrame>>

\* INSERT INTO users ... RETURNING, one statement outside any transaction;
\* the table has UNIQUE username and UNIQUE email
CreateUser(p) ==
    /\ pc[p] = "createUser"
    /\ \E out \in StoreOutcomes :
          /\ faults' = faults + (IF out = "fail" THEN 1 ELSE 0)
          /\ IF out = "fail"
                THEN /\ ret' = [ret EXCEPT ![p] = ErrStore]
                     /\ pc' = [pc EXCEPT ![p] = "done"]
                     /\ UNCHANGED <<users, user>>
                ELSE IF EmailExists(req[p].email) \/ UsernameExists(req[p].username)
                THEN /\ ret' = [ret EXCEPT ![p] = ErrUniqueViolation]
                     /\ pc' = [pc EXCEPT ![p] = "done"]
                     /\ UNCHANGED <<users, user>>
                ELSE /\ users' = users \cup {[id |-> NewID(users), email |-> req[p].email,
                                               username |-> req[p].username]}
                     /\ user' = [user EXCEPT ![p] = NewID(users)]
                     /\ IF call[p].op = "CreateUserWithWallet"
                           THEN /\ pc' = [pc EXCEPT ![p] = "createWallet"]
                                /\ UNCHANGED ret
                           ELSE /\ pc' = [pc EXCEPT ![p] = "done"]
                                /\ ret' = [ret EXCEPT ![p] = Nil]
    /\ UNCHANGED <<balance, wallets, req, call, userFrame>>

\* an INSERT INTO wallets that is retried and meets no UNIQUE(user_id)
CreateWalletAgain(p) ==
    /\ pc[p] = "createWallet"
    /\ wallets' = wallets \cup {[id |-> NewID(wallets), user_id |-> user[p]]}
    /\ balance' = (user[p] :> 0) @@ balance
    /\ IF \E w \in wallets : w.user_id = user[p]
          THEN /\ ret' = [ret EXCEPT ![p] = Nil]
               /\ pc' = [pc EXCEPT ![p] = "done"]
          ELSE UNCHANGED <<ret, pc>>
    /\ UNCHANGED <<users, req, user, call, faults, userFrame>>

\* INSERT INTO wallets (user_id, balance, ...) VALUES ($1, 0, ...), one
\* statement outside any transaction; the table has UNIQUE(user_id)
CreateWallet(p) ==
    /\ pc[p] = "createWallet"
    /\ \E out \in StoreOutcomes :
          /\ faults' = faults + (IF out = "fail" THEN 1 ELSE 0)
          /\ IF out = "fail"
                THEN /\ ret' = [ret EXCEPT ![p] = ErrStore]
                     /\ UNCHANGED <<wallets, balance>>
                ELSE IF \E w \in wallets : w.user_id = user[p]
                THEN /\ ret' = [ret EXCEPT ![p] = ErrUniqueViolation]
                     /\ UNCHANGED <<wallets, balance>>
                ELSE /\ wallets' = wallets \cup {[id |-> NewID(wallets), user_id |-> user[p]]}
                     /\ balance' = (user[p] :> 0) @@ balance
                     /\ ret' = [ret EXCEPT ![p] = Nil]
    /\ pc' = [pc EXCEPT ![p] = "done"]
    /\ UNCHANGED <<users, req, user, call, userFrame>>

\* user creations next to the wallet operations
UsersNext ==
    \E p \in Procs :
        \/ Step(p)
        \/ CreateUserWithWallet(p) \/ UserServiceCreateUser(p)
        \/ IsEmailExists(p) \/ IsUsernameExists(p)
        \/ CreateUser(p) \/ CreateWallet(p)

SpecUsers == Init /\ [][UsersNext]_vars

\* ------------------------------------------------------------- reading
\* how far the store's clock runs
MaxClock == 1

\* the committed state a statement outside any transaction sees
Committed == [balance |-> balance, ledger |-> ledger, createdAt |-> createdAt]

\* what no read request reads or writes besides the committed state
readFrame ==
    <<storeVars, localVars, applied, insertErr, okDeposited, okWithdrawn,
      initBalance, users, wallets, req, user, cancelled, clock, txStart, createdAt>>

\* time passes before a transaction begins: NOW() of a later transaction is
\* later (the clock is read by Begin only)
Tick ==
    /\ clock < MaxClock
    /\ \E p \in Procs : pc[p] = "begin"
    /\ clock' = clock + 1
    /\ UNCHANGED <<storeVars, localVars, applied, insertErr, okDeposited, okWithdrawn,
                   initBalance, users, wallets, req, user, cancelled, txStart, createdAt,
                   result, faults>>

\* a lookup that answers an empty wallet for a user who has none
GetWalletByUserIDZero(u) ==
    IF \E w \in wallets : w.user_id = u
       THEN [err |-> Nil,
             rows |-> <<[id |-> (CHOOSE w \in wallets : w.user_id = u).id,
                         user_id |-> u, balance |-> balance[u]]>>]
       ELSE [err |-> Nil, rows |-> <<[id |-> 0, user_id |-> u, balance |-> 0]>>]

\* SELECT ... FROM wallets WHERE user_id = $1, scanned into one wallet:
\* pgx.ErrNoRows when there is no row
GetWalletByUserID(u) ==
    IF \E w \in wallets : w.user_id = u
       THEN [err |-> Nil,
             rows |-> <<[id |-> (CHOOSE w \in wallets : w.user_id = u).id,
                         user_id |-> u, balance |-> balance[u]]>>]
       ELSE [err |-> ErrNoRows, rows |-> <<>>]

\* ORDER BY created_at DESC over the rows I of the transactions table; rows
\* of one creation time come in the order the table holds them
RECURSIVE OrderByCreatedAtDesc(_)
OrderByCreatedAtDesc(I) ==
    IF I = {} THEN <<>>
    ELSE LET i == CHOOSE i \in I :
                      \A j \in I : \/ createdAt[i] > createdAt[j]
                                   \/ createdAt[i] = createdAt[j] /\ i <= j
         IN  <<i>> \o OrderByCreatedAtDesc(I \ {i})

\* the rows of the transactions table as the SELECT returns them
TransactionRows(order) ==
    [k \in 1..Len(order) |->
        [id |-> order[k], wallet_id |-> ledger[order[k]].wallet,
         type |-> ledger[order[k]].type, amount |-> ledger[order[k]].amount,
         related_user_id |-> ledger[order[k]].related, created_at |-> createdAt[order[k]]]]

\* a listing without its WHERE wallet_id = $1
TransactionsOfAllWallets(w) ==
    [err |-> Nil, rows |-> TransactionRows(OrderByCreatedAtDesc(DOMAIN ledger))]

\* SELECT ... FROM transactions WHERE wallet_id = $1 ORDER BY created_at DESC;
\* a wallet is named by its owner, as in the records
TransactionsByWalletID(w) ==
    [err |-> Nil,
     rows |-> TransactionRows(OrderByCreatedAtDesc({i \in DOMAIN ledger : ledger[i].wallet = w}))]

StoreFailed == [err |-> ErrStore, rows |-> <<>>]

\* the answer val to the read request r, after the answer before it
Answer(r, val) ==
    [req |-> r, val |-> val, at |-> Committed,
     n |-> IF result.req = r /\ result.at = Committed THEN 2 ELSE 1]

\* a request calls GetWallet: one SELECT through the pool, no Begin
GetWallet(u) ==
    /\ \E out \in StoreOutcomes :
          /\ faults' = faults + (IF out = "fail" THEN 1 ELSE 0)
          /\ result' = Answer(<<"GetWallet", u>>,
                              IF out = "fail" THEN StoreFailed ELSE GetWalletByUserID(u))
    /\ UNCHANGED readFrame

\* a request lists the records of a wallet: one SELECT through the pool
GetTransactionsByWalletID(w) ==
    /\ \E out \in StoreOutcomes :
          /\ faults' = faults + (IF out = "fail" THEN 1 ELSE 0)
          /\ result' = Answer(<<"GetTransactionsByWalletID", w>>,
                              IF out = "fail" THEN StoreFailed ELSE TransactionsByWalletID(w))
    /\ UNCHANGED readFrame

\* the writers the reads run next to: deposits into the wallet of user 1 and
\* transfers from it to the wallet of user 2
WriterCall(p) ==
    \E op \in {"Deposit", "Transfer"} :
        Enter(p, op, 1, IF op = "Transfer" THEN 2 ELSE NoUser, Cent, Nil)

WriterStep(p) ==
    \/ WriterCall(p)
    \/ Begin(p)
    \/ DepositGet(p) \/ DepositUpdate(p) \/ DepositInsert(p)
    \/ TransferGetFrom(p) \/ TransferGetTo(p)
    \/ TransferUpdateFrom(p) \/ TransferUpdateTo(p)
    \/ TransferInsertOut(p) \/ TransferInsertIn(p)
    \/ Deferred(p)

\* the users the read requests name: the sender of the writers, and a user
\* without a wallet
ReadUsers == {1, 3}

\* read requests next to the writers
ReadsNext ==
    \/ \E p \in Procs : WriterStep(p)
    \/ Tick
    \/ \E u \in ReadUsers : GetWallet(u)
    \/ \E w \in ReadUsers : GetTransactionsByWalletID(w)

SpecReads == Init /\ [][ReadsNext]_vars

\* ------------------------------------------------------------ handlers
ErrWalletNotFound == "Wallet not found"

\* the answer of handlers.GetBalance to the answer w of GetWallet: any error
\* of GetWallet is answered 'Wallet not found'; cause is the error it had
BalanceResponse(w) ==
    [err |-> IF w.err # Nil THEN ErrWalletNotFound ELSE Nil,
     rows |-> IF w.err # Nil THEN <<[cause |-> w.err]>> ELSE <<[cause |-> Nil]>> \o w.rows]

\* a balance request: handlers.GetBalance calls GetWallet and answers
GetBalance(u) ==
    /\ \E out \in StoreOutcomes :
          /\ faults' = faults + (IF out = "fail" THEN 1 ELSE 0)
          /\ result' = Answer(<<"GetBalance", u>>,
                              BalanceResponse(IF out = "fail" THEN StoreFailed
                                                              ELSE GetWalletByUserID(u)))
    /\ UNCHANGED readFrame

\* balance requests next to the writers
BalanceNext ==
    \/ \E p \in Procs : WriterStep(p)
    \/ \E u \in ReadUsers : GetBalance(u)

SpecBalance == Init /\ [][BalanceNext]_vars

\* --------------------------------------------------- handlers.Transfer
ErrFromNotFound == "from_user_id not found"
ErrToNotFound == "to_user_id not found"

\* what no step of the handler reads or writes before it calls the service
handlerFrame ==
    <<storeVars, err, fromWallet, toWallet, closed, touched, applied, insertErr,
      okDeposited, okWithdrawn, initBalance, users, wallets, req, user, result,
      cancelled, clock, txStart, createdAt>>

\* SELECT ... FROM users WHERE id = $1: the error of the lookup, if any
GetUserByID(id, out) ==
    IF out = "fail" THEN ErrStore
    ELSE IF \A u \in users : u.id # id THEN ErrNoRows
    ELSE Nil

\* a transfer request reaches the handler, lines 32-61: the amount is
\* validated before any user is looked up
HandlersTransfer(p) ==
    /\ pc[p] = "idle"
    /\ \E f \in Users, t \in Users, a \in {0, Cent} :
          /\ call' = [call EXCEPT ![p] = [op |-> "Transfer", from |-> f, to |-> t, amount |-> a]]
          /\ IF a <= 0
                THEN /\ ret' = [ret EXCEPT ![p] = ErrNonPositive]
                     /\ pc' = [pc EXCEPT ![p] = "done"]
                ELSE /\ pc' = [pc EXCEPT ![p] = "checkFrom"]
                     /\ UNCHANGED ret
    /\ UNCHANGED <<handlerFrame, faults>>

\* a handler that does not look the source user up
CheckFromUserSkipped(p) ==
    /\ pc[p] = "checkFrom"
    /\ pc' = [pc EXCEPT ![p] = "checkTo"]
    /\ UNCHANGED <<handlerFrame, faults, call, ret>>

\* lines 65-69: any error of the lookup is answered 'from_user_id not found'
CheckFromUser(p) ==
    /\ pc[p] = "checkFrom"
    /\ \E out \in StoreOutcomes :
          /\ faults' = faults + (IF out = "fail" THEN 1 ELSE 0)
          /\ IF GetUserByID(call[p].from, out) # Nil
                THEN /\ ret' = [ret EXCEPT ![p] = ErrFromNotFound]
                     /\ pc' = [pc EXCEPT ![p] = "done"]
                ELSE /\ pc' = [pc EXCEPT ![p] = "checkTo"]
                     /\ UNCHANGED ret
    /\ UNCHANGED <<handlerFrame, call>>

\* lines 70-74
CheckToUser(p) ==
    /\ pc[p] = "checkTo"
    /\ \E out \in StoreOutcomes :
          /\ faults' = faults + (IF out = "fail" THEN 1 ELSE 0)
          /\ IF GetUserByID(call[p].to, out) # Nil
                THEN /\ ret' = [ret EXCEPT ![p] = ErrToNotFound]
                     /\ pc' = [pc EXCEPT ![p] = "done"]
                ELSE /\ pc' = [pc EXCEPT ![p] = "call"]
                     /\ UNCHANGED ret
    /\ UNCHANGED <<handlerFrame, call>>

\* line 76: services.Transfer is called; its validation, lines 16-21
CallTransfer(p) ==
    /\ pc[p] = "call"
    /\ IF NonPositive(call[p].amount)
          THEN pc' = [pc EXCEPT ![p] = "done"] /\ ret' = [ret EXCEPT ![p] = ErrNonPositive]
          ELSE IF call[p].from = call[p].to
          THEN pc' = [pc EXCEPT ![p] = "done"] /\ ret' = [ret EXCEPT ![p] = ErrSelfTransfer]
          ELSE pc' = [pc EXCEPT ![p] = "begin"] /\ UNCHANGED ret
    /\ UNCHANGED <<handlerFrame, faults, call>>

\* the rows of l that are not of the wallet of user u, by position
KeptRows(l, u) == SelectSeq([i \in 1..Len(l) |-> i], LAMBDA i : l[i].wallet # u)

\* a user is deleted by another client of the store: the wallet and its
\* records go with it (ON DELETE CASCADE); the DELETE waits for the write
\* lock of the wallet row
DeleteUser(u) ==
    /\ u \in DOMAIN balance
    /\ rowLock[u] = NoTx
    /\ users' = {r \in users : r.id # u}
    /\ wallets' = {w \in wallets : w.user_id # u}
    /\ balance' = [w \in DOMAIN balance \ {u} |-> balance[w]]
    /\ ledger' = [k \in 1..Len(KeptRows(ledger, u)) |-> ledger[KeptRows(ledger, u)[k]]]
    /\ createdAt' = [k \in 1..Len(KeptRows(ledger, u)) |-> createdAt[KeptRows(ledger, u)[k]]]
    /\ UNCHANGED <<rowLock, txStatus, txWrites, txRecs, localVars, applied, insertErr,
                   faults, okDeposited, okWithdrawn, initBalance, req, user, result,
                   cancelled, clock, txStart>>

\* transfer requests through the handler, next to deletions of users
HandlerNext ==
    \/ \E p \in Procs :
          \/ HandlersTransfer(p) \/ CheckFromUser(p) \/ CheckToUser(p) \/ CallTransfer(p)
          \/ Begin(p)
          \/ TransferGetFrom(p) \/ TransferGetTo(p)
          \/ TransferUpdateFrom(p) \/ TransferUpdateTo(p)
          \/ TransferInsertOut(p) \/ TransferInsertIn(p)
          \/ Deferred(p)
    \/ \E u \in Users : DeleteUser(u)

SpecHandler == Init /\ [][HandlerNext]_vars

\* ------------------------------------------- handlers.GetTransactionHistory
MaxTxs == 52           \* most records of one wallet
\* width of int, scaled down: offset + limit can wrap, while a list of
\* MaxTxs records plus the largest limit stays far within the range
IntBits == 9
DefaultLimit == 50
LargestLimit == 100
MaxInt == 2 ^ (IntBits - 1) - 1
ErrLimit == "limit must be between 1 and 100"
ErrOffset == "offset must be non-negative"
ErrPanic == "runtime error: slice bounds out of range"

\* a query parameter: absent (or empty), not a number of the int range, or a number
NoQuery == [given |-> FALSE, number |-> FALSE, val |-> 0]
NotANumber == [given |-> TRUE, number |-> FALSE, val |-> 0]
Number(v) == [given |-> TRUE, number |-> TRUE, val |-> v]

\* strconv.Atoi
Atoi(q) == [err |-> ~q.number, val |-> q.val]

\* a + b of int, wrapping
AddInt(a, b) ==
    IF a + b > MaxInt THEN a + b - 2 ^ IntBits
    ELSE IF a + b < 0 - MaxInt - 1 THEN a + b + 2 ^ IntBits
    ELSE a + b

\* txs[lo:hi], which panics unless 0 <= lo <= hi <= len(txs)
Slice(txs, lo, hi) ==
    IF 0 <= lo /\ lo <= hi /\ hi <= Len(txs)
       THEN [err |-> Nil, rows |-> SubSeq(txs, lo + 1, hi)]
       ELSE [err |-> ErrPanic, rows |-> <<>>]

\* a pagination whose window starts one record late
PaginateFromNext(txs, limit, offset) ==
    LET start == offset + 1
        end == AddInt(offset, limit)
    IN  IF start >= Len(txs) THEN [err |-> Nil, rows |-> <<>>]
        ELSE IF end > Len(txs) THEN Slice(txs, start, Len(txs))
        ELSE Slice(txs, start, end)

\* lines 137-146
Paginate(txs, limit, offset) ==
    LET start == offset
        end == AddInt(offset, limit)
    IN  IF start >= Len(txs) THEN [err |-> Nil, rows |-> <<>>]
        ELSE IF end > Len(txs) THEN Slice(txs, start, Len(txs))
        ELSE Slice(txs, start, end)

\* lines 104-123: the limit and the offset of the request, or the refusal
ParseLimit(q) ==
    IF ~q.given THEN [err |-> Nil, val |-> DefaultLimit]
    ELSE IF ~Atoi(q).err /\ Atoi(q).val > 0 /\ Atoi(q).val <= LargestLimit
    THEN [err |-> Nil, val |-> Atoi(q).val]
    ELSE [err |-> ErrLimit, val |-> 0]

ParseOffset(q) ==
    IF ~q.given THEN [err |-> Nil, val |-> 0]
    ELSE IF ~Atoi(q).err /\ Atoi(q).val >= 0
    THEN [err |-> Nil, val |-> Atoi(q).val]
    ELSE [err |-> ErrOffset, val |-> 0]

\* the response to a history request, given what the two reads answer
HistoryResponse(limitStr, offsetStr, wallet, txs) ==
    IF ParseLimit(limitStr).err # Nil THEN [err |-> ErrLimit, rows |-> <<>>]
    ELSE IF ParseOffset(offsetStr).err # Nil THEN [err |-> ErrOffset, rows |-> <<>>]
    ELSE IF wallet.err # Nil THEN [err |-> wallet.err, rows |-> <<>>]
    ELSE IF txs.err # Nil THEN [err |-> txs.err, rows |-> <<>>]
    ELSE Paginate(txs.rows, ParseLimit(limitStr).val, ParseOffset(offsetStr).val)

LimitQueries ==
    {NoQuery, NotANumber} \cup
    {Number(v) : v \in {0 - 1, 0, 1, 2, DefaultLimit, DefaultLimit + 1,
                        LargestLimit, LargestLimit + 1}}
OffsetQueries ==
    {NoQuery, NotANumber} \cup {Number(v) : v \in (0 - 1)..(MaxTxs + 1) \cup {MaxInt}}

\* the pending history request is answered: a request refused for its
\* parameters reads nothing; GetWallet failing, nothing is listed
GetTransactionHistory(u, limitStr, offsetStr) ==
    /\ result.n = 0
    /\ result.req = <<"GetTransactionHistory", u, limitStr, offsetStr>>
    /\ \E out1 \in StoreOutcomes :
       \E out2 \in (IF faults + (IF out1 = "fail" THEN 1 ELSE 0) < MaxFaults
                       THEN {"ok", "fail"} ELSE {"ok"}) :
          LET parsed == ParseLimit(limitStr).err = Nil /\ ParseOffset(offsetStr).err = Nil
              wallet == IF out1 = "fail" THEN StoreFailed ELSE GetWalletByUserID(u)
              txs == IF out2 = "fail" THEN StoreFailed ELSE TransactionsByWalletID(u)
          IN  /\ ~parsed => out1 = "ok"
              /\ (~parsed \/ wallet.err # Nil) => out2 = "ok"
              /\ faults' = faults + (IF out1 = "fail" THEN 1 ELSE 0)
                                  + (IF out2 = "fail" THEN 1 ELSE 0)
              /\ result' = Answer(<<"GetTransactionHistory", u, limitStr, offsetStr>>,
                                  HistoryResponse(limitStr, offsetStr, wallet, txs))
    /\ UNCHANGED readFrame

\* the numbers of records the wallet is listed with: few, and about the
\* default limit
HistoryLengths == 0..3 \cup (DefaultLimit - 1)..MaxTxs

\* the wallet of user 1 after n deposits of one cent, one per tick, and a
\* history request pending
HistoryInit ==
    \E n \in HistoryLengths, asker \in ReadUsers, limitStr \in LimitQueries,
       offsetStr \in OffsetQueries :
        /\ balance = [w \in InitialWallets |-> Cent * MaxBal + (IF w = 1 THEN Cent * n ELSE 0)]
        /\ initBalance = balance
        /\ ledger = [i \in 1..n |-> [wallet |-> 1, type |-> TransactionTypeDeposit,
                                     amount |-> Cent, related |-> NoUser]]
        /\ createdAt = [i \in 1..n |-> i]
        /\ clock = n
        /\ rowLock = [w \in Users |-> NoTx]
        /\ txStatus = [p \in Procs |-> "none"]
        /\ txWrites = [p \in Procs |-> NoWrites]
        /\ txRecs = [p \in Procs |-> <<>>]
        /\ call = [p \in Procs |-> NoCall]
        /\ pc = [p \in Procs |-> "idle"]
        /\ err = [p \in Procs |-> Nil]
        /\ ret = [p \in Procs |-> ""]
        /\ fromWallet = [p \in Procs |-> 0]
        /\ toWallet = [p \in Procs |-> 0]
        /\ closed = [p \in Procs |-> "none"]
        /\ touched = [p \in Procs |-> <<>>]
        /\ applied = [p \in Procs |-> NothingApplied]
        /\ insertErr = [p \in Procs |-> FALSE]
        /\ faults = 0
        /\ okDeposited = Cent * n
        /\ okWithdrawn = 0
        /\ users = {[id |-> w, email |-> w, username |-> w] : w \in InitialWallets}
        /\ wallets = {[id |-> w, user_id |-> w] : w \in InitialWallets}
        /\ req = [p \in Procs |-> NoRequest]
        /\ user = [p \in Procs |-> NoUser]
        /\ result = [NoResult EXCEPT !.req = <<"GetTransactionHistory", asker, limitStr, offsetStr>>]
        /\ cancelled = [p \in Procs |-> FALSE]
        /\ txStart = [p \in Procs |-> 0]

HistoryNext ==
    \E u \in ReadUsers, limitStr \in LimitQueries, offsetStr \in OffsetQueries :
        GetTransactionHistory(u, limitStr, offsetStr)

SpecHistory == HistoryInit /\ [][HistoryNext]_vars

\* N concurrent withdrawals of one amount against the wallet of user 1, on
\* a store that does not fail
RaceBalances == {Cent * k : k \in 0..(MaxBal + 1)}
RaceAmounts == {Cent * k : k \in 1..(MaxAmt + 1)}

RaceInit ==
    \E b \in RaceBalances :
        InitWith([u \in InitialWallets |-> IF u = 1 THEN b ELSE 0], MaxFaults)

RaceCall(p) ==
    /\ \E a \in RaceAmounts :
        /\ \A q \in Procs : call[q].op # "none" => call[q].amount = a
        /\ Enter(p, "Withdraw", 1, NoUser, a, Nil)

RaceNext ==
    \E p \in Procs :
        \/ RaceCall(p)
        \/ Begin(p)
        \/ WithdrawGet(p) \/ WithdrawUpdate(p) \/ WithdrawInsert(p)
        \/ Deferred(p)

SpecRace == RaceInit /\ [][RaceNext]_vars

\* two transfers over the wallets of users 1 and 2 in opposite directions,
\* each goroutine being scheduled again and again
OppositeInit ==
    \E b1 \in RaceBalances, b2 \in RaceBalances :
        InitWith([u \in InitialWallets |-> IF u = 1 THEN b1 ELSE b2], MaxFaults)

OppositeCall(p) ==
    /\ \E a \in RaceAmounts :
        IF p = "p1" THEN Enter(p, "Transfer", 1, 2, a, Nil)
                    ELSE Enter(p, "Transfer", 2, 1, a, Nil)

OppositeStep(p) ==
    \/ OppositeCall(p)
    \/ Begin(p)
    \/ TransferGetFrom(p) \/ TransferGetTo(p)
    \/ TransferUpdateFrom(p) \/ TransferUpdateTo(p)
    \/ TransferInsertOut(p) \/ TransferInsertIn(p)
    \/ Deferred(p)

OppositeNext == \E p \in Procs : OppositeStep(p)

SpecOpposite ==
    /\ OppositeInit
    /\ [][OppositeNext]_vars
    /\ \A p \in Procs : WF_vars(OppositeStep(p))

\* ------------------------------------------------- quantities of claims
RECURSIVE SumOver(_, _)
SumOver(f, S) ==
    IF S = {} THEN 0
    ELSE LET x == CHOOSE y \in S : TRUE IN f[x] + SumOver(f, S \ {x})

\* the amount of a record, counted positive when it credits its wallet
SignedAmount(r) ==
    IF r.type \in {TransactionTypeDeposit, TransactionTypeTransferIn}
    THEN r.amount ELSE 0 - r.amount

RECURSIVE LedgerSum(_, _)
LedgerSum(l, u) ==
    IF l = <<>> THEN 0
    ELSE (IF Head(l).wallet = u THEN SignedAmount(Head(l)) ELSE 0) + LedgerSum(Tail(l), u)

Returned(p) == pc[p] = "done"
Succeeded(p) == Returned(p) /\ ret[p] = Nil
Successes == Cardinality({p \in Procs : Succeeded(p)})
TouchedRows(p) == {touched[p][i] : i \in DOMAIN touched[p]}
TransferApplied(p) ==
    [balances |-> {call[p].from, call[p].to},
     types |-> {TransactionTypeTransferOut, TransactionTypeTransferIn}]
MutualWait == \E p \in Procs : DeadlockCycle(p)

\* ----------------------------------------------- validation of float64
\* a float64 amount: finite (its value counted in mills), NaN, +Inf or -Inf
Fin(v) == [kind |-> "fin", v |-> v]
NaN == [kind |-> "nan", v |-> 0]
PosInf == [kind |-> "inf", v |-> 1]
NegInf == [kind |-> "inf", v |-> 0 - 1]

\* math.IsNaN(x) and math.IsInf(x, 0)
IsNaN(x) == x.kind = "nan"
IsInf(x) == x.kind = "inf"

\* x <= c and x > c of float64 for a finite c (in mills): every comparison
\* with NaN is false
FloatLeq(x, c) == IF IsNaN(x) THEN FALSE ELSE IF IsInf(x) THEN x.v < 0 ELSE x.v <= c
FloatGt(x, c) == IF IsNaN(x) THEN FALSE ELSE IF IsInf(x) THEN x.v > 0 ELSE x.v > c

\* messages of the transfer handler
ErrExceedsMaximum == "amount exceeds maximum limit"
ErrInvalidAmount == "invalid amount"

\* handlers.Transfer, lines 49-61: the checks on req.Amount, in their order
TransferAmountError(x) ==
    IF FloatLeq(x, 0) THEN ErrNonPositive
    ELSE IF FloatGt(x, MaxLimit * 100 * Cent) THEN ErrExceedsMaximum
    ELSE IF IsNaN(x) \/ IsInf(x) THEN ErrInvalidAmount
    ELSE Nil

\* the check on amount of services.Deposit, Withdraw and Transfer
AmountError(x) == IF FloatLeq(x, 0) THEN ErrNonPositive ELSE Nil

\* the float64 values a request is made with
FiniteAmounts ==
    {0 - Cent, 0, 4, Cent - 1, Cent + 1, MaxLimit * 100 * Cent, MaxLimit * 100 * Cent + 1}
        \cup {Cent * k : k \in 1..MaxAmt}
Floats == {NaN, PosInf, NegInf} \cup {Fin(v) : v \in FiniteAmounts}

ValidateInit == InitWith([u \in InitialWallets |-> Cent * MaxBal], 0)

\* a transfer request reaches handlers.Transfer with amount x
TransferRequest(p) ==
    /\ pc[p] = "idle"
    /\ \E x \in Floats :
         call' = [call EXCEPT ![p] = [op |-> "Transfer", from |-> 1, to |-> 2, amount |-> x]]
    /\ pc' = [pc EXCEPT ![p] = "handler"]
    /\ UNCHANGED <<storeVars, err, ret, fromWallet, toWallet, closed, touched, ghostVars>>

\* services.Deposit or services.Withdraw is called with amount x (their
\* handlers pass a bound req.Amount on without checking it)
AmountRequest(p) ==
    /\ pc[p] = "idle"
    /\ \E op \in {"Deposit", "Withdraw"}, x \in Floats :
         call' = [call EXCEPT ![p] = [op |-> op, from |-> 1, to |-> NoUser, amount |-> x]]
    /\ pc' = [pc EXCEPT ![p] = "service"]
    /\ UNCHANGED <<storeVars, err, ret, fromWallet, toWallet, closed, touched, ghostVars>>

\* handlers.Transfer, lines 49-76: answer 400 with the first failing check,
\* or call services.Transfer
HandlerValidate(p) ==
    /\ pc[p] = "handler"
    /\ LET e == TransferAmountError(call[p].amount) IN
        IF e = Nil
        THEN pc' = [pc EXCEPT ![p] = "service"] /\ UNCHANGED ret
        ELSE pc' = [pc EXCEPT ![p] = "done"] /\ ret' = [ret EXCEPT ![p] = e]
    /\ UNCHANGED <<storeVars, call, err, fromWallet, toWallet, closed, touched, ghostVars>>

\* the first lines of the service function: return the error, or go on to
\* open the unit of work
ServiceValidate(p) ==
    /\ pc[p] = "service"
    /\ LET e == AmountError(call[p].amount) IN
        IF e = Nil
        THEN pc' = [pc EXCEPT ![p] = "valid"] /\ UNCHANGED ret
        ELSE pc' = [pc EXCEPT ![p] = "done"] /\ ret' = [ret EXCEPT ![p] = e]
    /\ UNCHANGED <<storeVars, call, err, fromWallet, toWallet, closed, touched, ghostVars>>

ValidateNext ==
    \E p \in Procs :
        \/ TransferRequest(p) \/ AmountRequest(p)
        \/ HandlerValidate(p) \/ ServiceValidate(p)

SpecValidate == ValidateInit /\ [][ValidateNext]_vars

\* the functions run one at a time on a store that does not fail: the
\* balances, the records and the returned error of call c started on
\* balances bal and records led
SerialApply(bal, led, c) ==
    LET a == c.amount
        unchanged(e) == [bal |-> bal, led |-> led, ret |-> e]
        rec(w, t, rel) == [wallet |-> w, type |-> t, amount |-> RoundNumeric(a), related |-> rel]
    IN
    IF NonPositive(a) THEN unchanged(ErrNonPositive)
    ELSE IF c.op = "Transfer" /\ c.from = c.to THEN unchanged(ErrSelfTransfer)
    ELSE IF c.from \notin DOMAIN bal THEN unchanged(ErrNoRows)
    ELSE IF c.op = "Transfer" /\ c.to \notin DOMAIN bal THEN unchanged(ErrNoRows)
    ELSE IF c.op # "Deposit" /\ InsufficientBalance(bal[c.from], a)
         THEN unchanged(ErrInsufficient)
    ELSE IF c.op = "Deposit"
         THEN [bal |-> [bal EXCEPT ![c.from] = RoundNumeric(@ + a)],
               led |-> Append(led, rec(c.from, TransactionTypeDeposit, NoUser)),
               ret |-> Nil]
    ELSE IF c.op = "Withdraw"
         THEN [bal |-> [bal EXCEPT ![c.from] = RoundNumeric(@ - a)],
               led |-> Append(led, rec(c.from, TransactionTypeWithdraw, NoUser)),
               ret |-> Nil]
    ELSE [bal |-> [bal EXCEPT ![c.from] = RoundNumeric(@ - a),
                               ![c.to] = RoundNumeric(@ + a)],
          led |-> led \o <<rec(c.from, TransactionTypeTransferOut, c.to),
                           rec(c.to, TransactionTypeTransferIn, c.from)>>,
          ret |-> Nil]

\* the calls of the goroutines listed in order, run one after the other
RECURSIVE SerialRun(_, _)
SerialRun(s, order) ==
    IF order = <<>> THEN s
    ELSE LET p == Head(order)
             r == SerialApply(s.bal, s.led, call[p])
         IN SerialRun([bal |-> r.bal, led |-> r.led, ret |-> (p :> r.ret) @@ s.ret],
                      Tail(order))

Orders ==
    {o \in [1..Cardinality(Procs) -> Procs] : \A p \in Procs : \E i \in DOMAIN o : o[i] = p}

RECURSIVE Count(_, _)
Count(l, r) ==
    IF l = <<>> THEN 0 ELSE (IF Head(l) = r THEN 1 ELSE 0) + Count(Tail(l), r)

SameRecords(l1, l2) ==
    /\ Len(l1) = Len(l2)
    /\ \A i \in DOMAIN l1 : Count(l1, l1[i]) = Count(l2, l1[i])

\* the step in which call p of operation op closes its unit of work and returns
Completes(p, op) == pc[p] = "ret" /\ pc'[p] = "done" /\ call[p].op = op

\* an amount within the documented range of 0.01 to 1,000,000
InRange(a) == Cent <= a /\ a <= MaxLimit * 100 * Cent

\* the records a step added to the committed transactions table
Added == SubSeq(ledger', Len(ledger) + 1, Len(ledger'))

\* p has opened no unit of work and has read or written nothing
NoUnitOfWork(p) ==
    /\ txStatus[p] = "none"
    /\ closed[p] = "none"
    /\ touched[p] = <<>>
    /\ applied[p] = NothingApplied

\* the step in which p enters its call
Enters(p) == pc[p] = "idle" /\ pc'[p] # "idle"

\* the rule of the documented validation order that amount x fails first
ErrBelowMinimum == "amount must be at least 0.01"
FirstFailingRule(x) ==
    IF IsNaN(x) \/ IsInf(x) THEN ErrInvalidAmount
    ELSE IF x.v <= 0 THEN ErrNonPositive
    ELSE IF x.v < Cent THEN ErrBelowMinimum
    ELSE IF x.v > MaxLimit * 100 * Cent THEN ErrExceedsMaximum
    ELSE Nil

\* a store operation of transfer p failed after its first balance write
FailedAfterFirstWrite(p) ==
    \/ insertErr[p]
    \/ ret[p] \in {ErrStore, ErrDeadlock} /\ Len(touched[p]) = 3

\* ------------------------------------------------------------------ claims
\* C1: when all of the concurrent Withdraw(1, a) calls against the wallet
\* with committed balance B have returned, the number of calls that returned
\* success is at most floor(B / a) and the balance is B - successes * a.
C1_WithdrawRaceNoLostUpdate ==
    (\A p \in Procs : Returned(p)) =>
        LET a == call["p1"].amount
            B == initBalance[1]
        IN /\ Successes <= B \div a
           /\ balance[1] = B - Successes * a

\* C2: in every committed state every wallet's balance is >= 0.
C2_BalanceNeverNegative == \A u \in DOMAIN balance : balance[u] >= 0

\* a committed withdrawal or transfer has taken a wallet down to exactly 0
C2_Witness ==
    \E p \in Procs :
        /\ call[p].op \in {"Withdraw", "Transfer"}
        /\ Succeeded(p)
        /\ call[p].from \in applied[p].balances
        /\ balance[call[p].from] = 0

\* C3: the sum of all balances is the initial sum plus the amounts of the
\* deposits that returned success minus the amounts of the withdrawals that
\* returned success; transfers do not change it.
C3_MoneyConserved ==
    SumOver(balance, DOMAIN balance)
        = SumOver(initBalance, DOMAIN initBalance) + okDeposited - okWithdrawn

\* C4: a returned Transfer has made durable either both balance writes and
\* both records, or none of the four.
C4_TransferAllOrNothing ==
    \A p \in Procs :
        (call[p].op = "Transfer" /\ Returned(p)) =>
            applied[p] \in {NothingApplied, TransferApplied(p)}

\* C5: an operation in which appending a record failed returns an error, is
\* rolled back and makes nothing durable.
C5_AppendFailureAborts ==
    \A p \in Procs :
        (Returned(p) /\ insertErr[p]) =>
            /\ ret[p] # Nil
            /\ closed[p] = "rollback"
            /\ applied[p] = NothingApplied

\* C6: every wallet's balance is its initial balance plus the amounts of its
\* DEPOSIT and TRANSFER_IN records minus the amounts of its WITHDRAW and
\* TRANSFER_OUT records.
C6_LedgerExplainsBalance ==
    \A u \in DOMAIN balance : balance[u] = initBalance[u] + LedgerSum(ledger, u)

\* C7: a Withdraw or Transfer that returned the insufficient balance error
\* closed its unit of work with rollback, and made nothing durable.
C7_InsufficientBalanceRollsBack ==
    \A p \in Procs :
        (Returned(p) /\ ret[p] = ErrInsufficient) =>
            /\ closed[p] = "rollback"
            /\ applied[p] = NothingApplied

\* C8: of two transfers over the same two wallets in opposite directions,
\* each one that opened its unit of work eventually has it committed or
\* rolled back, and the two never keep waiting for each other.
C8_OppositeTransfersTerminate ==
    /\ \A p \in Procs : (txStatus[p] = "open") ~> (closed[p] \in {"commit", "rollback"})
    /\ MutualWait ~> ~MutualWait

\* each transfer holds the row the other one's UPDATE waits for
C8_Witness ==
    /\ MutualWait
    /\ call["p1"].op = "Transfer" /\ call["p2"].op = "Transfer"
    /\ call["p1"].from = call["p2"].to /\ call["p1"].to = call["p2"].from

\* C9: the first wallet row a Transfer touches is the one of the smaller
\* user identifier, whichever of the two is the source.
C9_CanonicalLockOrder ==
    \A p \in Procs :
        (call[p].op = "Transfer" /\ touched[p] # <<>>) =>
            /\ touched[p][1] <= call[p].from
            /\ touched[p][1] <= call[p].to

\* C10: no two open units of work have both read the same wallet row.
C10_ExclusiveRead ==
    \A p \in Procs, q \in Procs :
        (p # q /\ txStatus[p] # "none" /\ txStatus[q] # "none") =>
            TouchedRows(p) \cap TouchedRows(q) = {}

\* C11: when all the concurrent calls have returned on a store that never
\* failed, the committed balances, the committed records and the result of
\* each call are those of running the same calls one at a time in some order.
C11_Serializable ==
    ((\A p \in Procs : Returned(p)) /\ faults = 0) =>
        \E o \in Orders :
            LET s == SerialRun([bal |-> initBalance, led |-> <<>>, ret |-> <<>>], o) IN
            /\ balance = s.bal
            /\ SameRecords(ledger, s.led)
            /\ \A p \in Procs : ret[p] = s.ret[p]

\* C12: the step that completes a Deposit(u, a) of a valid amount returning
\* success takes the committed balance of u from b to b + a, the returned
\* wallet holds b + a, exactly one record DEPOSIT of amount a without
\* counterparty is added on u's wallet, and no other wallet changes.
C12_DepositEffect ==
    [][\A p \in Procs :
        (Completes(p, "Deposit") /\ ret[p] = Nil /\ InRange(call[p].amount)) =>
            LET u == call[p].from
                a == call[p].amount
            IN /\ balance' = [balance EXCEPT ![u] = @ + a]
               /\ fromWallet[p] = balance'[u]
               /\ ledger' = Append(ledger, [wallet |-> u, type |-> TransactionTypeDeposit,
                                             amount |-> a, related |-> NoUser])]_vars

\* C13: the step that completes a Withdraw(u, a) of a valid amount returning
\* success finds a <= b and takes the committed balance from b to b - a,
\* adding one record WITHDRAW of amount a; a Withdraw returns the
\* insufficient balance error only when a exceeds the balance it read, and
\* then changes no balance and adds no record.
C13_WithdrawEffect ==
    [][\A p \in Procs :
        (Completes(p, "Withdraw") /\ InRange(call[p].amount)) =>
            LET u == call[p].from
                a == call[p].amount
            IN /\ ret[p] = Nil =>
                    /\ a <= balance[u]
                    /\ balance' = [balance EXCEPT ![u] = @ - a]
                    /\ ledger' = Append(ledger, [wallet |-> u, type |-> TransactionTypeWithdraw,
                                                  amount |-> a, related |-> NoUser])
               /\ ret[p] = ErrInsufficient =>
                    /\ a > fromWallet[p]
                    /\ balance' = balance
                    /\ ledger' = ledger]_vars

\* C14: the step that completes a Transfer(from, to, a) of a valid amount
\* between distinct users returning success finds a <= b1 and takes the
\* committed balances from b1, b2 to b1 - a, b2 + a; a Transfer returns the
\* insufficient balance error only when a exceeds the source balance it
\* read, and then both balances stay.
C14_TransferEffect ==
    [][\A p \in Procs :
        (Completes(p, "Transfer") /\ InRange(call[p].amount)) =>
            LET f == call[p].from
                t == call[p].to
                a == call[p].amount
            IN /\ ret[p] = Nil =>
                    /\ a <= balance[f]
                    /\ balance' = [balance EXCEPT ![f] = @ - a, ![t] = @ + a]
               /\ ret[p] = ErrInsufficient =>
                    /\ a > fromWallet[p]
                    /\ balance' = balance]_vars

\* C15: the step that completes a Transfer(from, to, a) of a valid amount
\* returning success adds exactly two records, TRANSFER_OUT of amount a on the source wallet
\* with counterparty to and TRANSFER_IN of amount a on the destination
\* wallet with counterparty from; no committed DEPOSIT or WITHDRAW record
\* carries a counterparty.
C15_TransferRecords ==
    /\ [][\A p \in Procs :
            (Completes(p, "Transfer") /\ ret[p] = Nil /\ InRange(call[p].amount)) =>
                /\ Len(ledger') = Len(ledger) + 2
                /\ {Added[i] : i \in DOMAIN Added} =
                      {[wallet |-> call[p].from, type |-> TransactionTypeTransferOut,
                        amount |-> call[p].amount, related |-> call[p].to],
                       [wallet |-> call[p].to, type |-> TransactionTypeTransferIn,
                        amount |-> call[p].amount, related |-> call[p].from]}]_vars
    /\ [](\A i \in DOMAIN ledger :
            ledger[i].type \in {TransactionTypeDeposit, TransactionTypeWithdraw}
                => ledger[i].related = NoUser)

\* C16 as stated: a Transfer with fromUserID = toUserID has returned the
\* self transfer error, whatever its amount, without a unit of work.
C16_SelfTransferAlways ==
    \A p \in Procs :
        (call[p].op = "Transfer" /\ call[p].from = call[p].to) =>
            /\ Returned(p)
            /\ ret[p] = ErrSelfTransfer
            /\ NoUnitOfWork(p)

\* C16 amended: a Transfer with fromUserID = toUserID has returned an error
\* without a unit of work, whatever the balance: the non-positive amount
\* error when amount <= 0, the self transfer error otherwise; the step that
\* enters it changes nothing in the store.
C16_SelfTransferRejected ==
    /\ [](\A p \in Procs :
            (call[p].op = "Transfer" /\ call[p].from = call[p].to) =>
                /\ Returned(p)
                /\ ret[p] = IF NonPositive(call[p].amount) THEN ErrNonPositive
                                                             ELSE ErrSelfTransfer
                /\ NoUnitOfWork(p))
    /\ [][\A p \in Procs :
            (Enters(p) /\ call'[p].op = "Transfer" /\ call'[p].from = call'[p].to) =>
                UNCHANGED storeVars]_vars

\* a self transfer of a positive amount the wallet could have paid was
\* refused as a self transfer
C16_Witness ==
    \E p \in Procs :
        /\ call[p].op = "Transfer" /\ call[p].from = call[p].to
        /\ call[p].from \in DOMAIN balance
        /\ call[p].amount >= Cent /\ call[p].amount <= balance[call[p].from]
        /\ Returned(p) /\ ret[p] = ErrSelfTransfer

C18_ValidationOrder ==
    \A p \in Procs :
        /\ pc[p] = "done" => ret[p] = FirstFailingRule(call[p].amount)
        /\ pc[p] = "valid" => ~(IsNaN(call[p].amount) \/ IsInf(call[p].amount))

\* C19: a call with a positive amount below 0.01 has been refused with the
\* below-minimum error and one with an amount above 1,000,000 with the
\* exceeds-maximum error, so that every call that went on to its unit of
\* work has 0.01 <= amount <= 1,000,000; an amount within the range is not
\* refused by validation.
C19_AmountRange ==
    \A p \in Procs :
        call[p].op # "none" =>
            LET a == call[p].amount IN
            /\ (0 < a /\ a < Cent) => Returned(p) /\ ret[p] = ErrBelowMinimum
            /\ a > MaxLimit * 100 * Cent => Returned(p) /\ ret[p] = ErrExceedsMaximum
            /\ InRange(a) => ret[p] \notin {ErrNonPositive, ErrBelowMinimum, ErrExceedsMaximum}

\* C20: a returned Transfer of a valid amount in which a store operation
\* failed after the first balance write has returned an error and made durable no balance
\* write and no record.
C20_MidTransferFailureRollsBack ==
    \A p \in Procs :
        (call[p].op = "Transfer" /\ InRange(call[p].amount)
            /\ Returned(p) /\ FailedAfterFirstWrite(p)) =>
            /\ ret[p] # Nil
            /\ applied[p] = NothingApplied

\* C21: a returned Transfer between distinct users, of an amount that passed
\* validation and with no store failure, whose source or destination wallet
\* does not exist, has failed with the not-found error of the lookup, was
\* rolled back and made nothing durable; the source is looked up first, so
\* with a missing source the destination was never looked up.
C21_TransferNotFound ==
    \A p \in Procs :
        (/\ call[p].op = "Transfer" /\ Returned(p)
         /\ ret[p] \notin {ErrNonPositive, ErrSelfTransfer, ErrStore}
         /\ (call[p].from \notin DOMAIN balance \/ call[p].to \notin DOMAIN balance)) =>
            /\ ret[p] = ErrNoRows
            /\ closed[p] = "rollback"
            /\ applied[p] = NothingApplied
            /\ touched[p] = IF call[p].from \in DOMAIN balance THEN <<call[p].from>> ELSE <<>>

\* a transfer between two users who both have no wallet failed at the
\* source lookup
C21_Witness ==
    \E p \in Procs :
        /\ call[p].op = "Transfer" /\ Returned(p)
        /\ call[p].from # call[p].to
        /\ call[p].from \notin DOMAIN balance /\ call[p].to \notin DOMAIN balance
        /\ ret[p] = ErrNoRows /\ touched[p] = <<>> /\ closed[p] = "rollback"

\* C22: every unit of work that is opened is eventually closed by commit or
\* by rollback; no call has returned with its unit of work still open, and
\* a unit of work that was closed is not closed a second time or another way.
C22_ClosedExactlyOnce ==
    /\ \A p \in Procs : (txStatus[p] # "none") ~> (closed[p] \in {"commit", "rollback"})
    /\ [](\A p \in Procs : (Returned(p) \/ closed[p] # "none") => txStatus[p] = "none")
    /\ [][\A p \in Procs : closed[p] # "none" => closed'[p] = closed[p]]_vars

\* a unit of work closed by rollback on an error path while another one was
\* closed by commit
C22_Witness ==
    \E p \in Procs, q \in Procs :
        /\ closed[p] = "rollback" /\ ret[p] = ErrStore
        /\ closed[q] = "commit" /\ ret[q] = Nil

\* C23: every step leaves each committed record, and its creation time, in
\* place and unchanged: the committed records only grow by appending.
C23_AppendOnly ==
    [][/\ Len(ledger') >= Len(ledger)
       /\ SubSeq(ledger', 1, Len(ledger)) = ledger
       /\ SubSeq(createdAt', 1, Len(createdAt)) = createdAt]_vars

\* two operations have each committed a record, one after the other
C23_Witness ==
    /\ Len(ledger) >= 2
    /\ \A p \in Procs : Returned(p) /\ applied[p].types # {}

\* C24: every committed transaction record has a strictly positive amount and
\* a kind among DEPOSIT, WITHDRAW, TRANSFER_IN and TRANSFER_OUT.
C24_RecordsPositive ==
    \A i \in DOMAIN ledger :
        /\ ledger[i].amount > 0
        /\ ledger[i].type \in {TransactionTypeDeposit, TransactionTypeWithdraw,
                               TransactionTypeTransferIn, TransactionTypeTransferOut}

\* C25: when CreateUserWithWallet returns, with or without an error, the
\* row of its user exists exactly when a wallet of that user, with balance
\* 0, exists: no user is left without a wallet.
C25_UserIffWallet ==
    [][\A p \in Procs :
          (call[p].op = "CreateUserWithWallet" /\ ~Returned(p) /\ pc'[p] = "done") =>
              ((\E u \in users' : u.id = user'[p]) <=>
               (\E w \in wallets' : /\ w.user_id = user'[p]
                                     /\ user'[p] \in DOMAIN balance'
                                     /\ balance'[user'[p]] = 0))]_vars

\* C26: each user owns at most one wallet, and a wallet keeps its owner at
\* every step of the user creations and wallet operations.
C26_OneWalletPerUser ==
    /\ [](\A w \in wallets, v \in wallets : w.user_id = v.user_id => w = v)
    /\ [][\A w \in wallets, v \in wallets' : v.id = w.id => v.user_id = w.user_id]_vars

\* a user was created with its wallet, and a deposit into that wallet succeeded
C26_Witness ==
    \E p \in Procs, q \in Procs :
        /\ call[p].op = "CreateUserWithWallet" /\ Succeeded(p)
        /\ call[q].op = "Deposit" /\ call[q].from = user[p] /\ Succeeded(q)
        /\ \E w \in wallets : w.user_id = user[p]

\* C30: no two users share an email or a username, and a UserService.CreateUser
\* whose email is in use returns 'email already in use', one whose username
\* (but not email) is in use returns 'username already in use', creating no
\* user in either case.
C30_UniqueUsers ==
    /\ [](\A u \in users, v \in users :
            (u.email = v.email \/ u.username = v.username) => u = v)
    /\ [][\A p \in Procs :
            (call[p].op = "CreateUser" /\ ~Returned(p) /\ pc'[p] = "done") =>
                /\ EmailExists(req[p].email) =>
                       ret'[p] = ErrEmailInUse /\ users' = users
                /\ (~EmailExists(req[p].email) /\ UsernameExists(req[p].username)) =>
                       ret'[p] = ErrUsernameInUse /\ users' = users]_vars

C29_CancelRollsBack ==
    /\ [][\A p \in Procs :
            (cancelled[p] /\ pc'[p] # pc[p]) => balance' = balance /\ ledger' = ledger]_vars
    /\ [](\A p \in Procs :
            (cancelled[p] /\ Returned(p)) =>
                /\ txStatus[p] = "none"
                /\ closed[p] \in {"commit", "rollback"}
                /\ applied[p] = NothingApplied
                /\ \A u \in Users : rowLock[u] # p)

\* a deposit was cancelled between its UPDATE and its INSERT: the INSERT
\* failed, its error was dropped, the closure called Commit, and nothing of
\* the deposit is committed
C29_Witness ==
    \E p \in Procs :
        /\ call[p].op = "Deposit" /\ cancelled[p] /\ Returned(p)
        /\ insertErr[p] /\ ret[p] = Nil /\ closed[p] = "commit"
        /\ balance[call[p].from] = initBalance[call[p].from]
        /\ ledger = <<>>

\* C31: a failure is reported to the caller under the kind of its cause: a
\* request answered with the not-found error found no wallet, and one the
\* store failed is not answered with it; likewise for the operations, whose
\* no-rows error means a wallet they name is missing.
C31_ErrorKinds ==
    /\ (result.n > 0 /\ result.req[1] = "GetBalance" /\ result.val.err = ErrWalletNotFound) =>
           /\ result.val.rows[1].cause = ErrNoRows
           /\ result.req[2] \notin DOMAIN result.at.balance
    /\ \A p \in Procs :
           (Returned(p) /\ ret[p] = ErrNoRows) =>
               (call[p].from \notin DOMAIN balance \/ call[p].to \notin DOMAIN balance)

\* C32: the step that returns success from Deposit, Withdraw or Transfer of
\* an amount in range has
\* committed the unit of work: its balance writes are durable and, for
\* Deposit and Withdraw, the committed balance is the one of the returned
\* wallet; a commit that failed is not returned as success.
C32_SuccessMeansCommitted ==
    [][\A p \in Procs : \A op \in {"Deposit", "Withdraw", "Transfer"} :
          (Completes(p, op) /\ ret[p] = Nil /\ InRange(call[p].amount)) =>
              /\ closed'[p] = "commit"
              /\ applied'[p].balances =
                     {call[p].from} \cup (IF op = "Transfer" THEN {call[p].to} ELSE {})
              /\ op # "Transfer" => balance'[call[p].from] = RoundNumeric(fromWallet[p])]_vars

\* the wallets the call of p names, and the wallets p has read or written
Involved(p) == {call[p].from} \cup (IF call[p].op = "Transfer" THEN {call[p].to} ELSE {})
Touched(p) == {touched[p][i] : i \in DOMAIN touched[p]}

\* C33: a unit of work is opened only for a validated call; a balance is
\* written in it only after every wallet the call names has been read; a
\* record is appended only after the balance of its wallet has been written;
\* and a unit of work is rolled back or committed only when it is open.
C33_StepOrder ==
    [][\A p \in Procs :
          /\ (txStatus[p] = "none" /\ txStatus'[p] = "open") =>
                 /\ ~NonPositive(call[p].amount)
                 /\ call[p].op = "Transfer" => call[p].from # call[p].to
                 /\ touched[p] = <<>> /\ txWrites[p] = NoWrites /\ txRecs[p] = <<>>
          /\ (DOMAIN txWrites'[p] # DOMAIN txWrites[p] /\ txWrites'[p] # NoWrites) =>
                 Involved(p) \subseteq Touched(p)
          /\ Len(txRecs'[p]) > Len(txRecs[p]) =>
                 /\ txRecs'[p][Len(txRecs'[p])].wallet \in DOMAIN txWrites[p]
                 /\ Involved(p) = DOMAIN txWrites[p]
          /\ (closed[p] = "none" /\ closed'[p] # "none") =>
                 txStatus[p] \in {"open", "aborted"}]_vars

\* a transfer has read both wallets, written both balances, appended both
\* records and committed; another call was rolled back
C33_Witness ==
    \E p \in Procs, q \in Procs :
        /\ call[p].op = "Transfer" /\ Succeeded(p)
        /\ applied[p].balances = {call[p].from, call[p].to}
        /\ applied[p].types = {TransactionTypeTransferOut, TransactionTypeTransferIn}
        /\ closed[q] = "rollback"

\* the committed records of the wallet of user u
RecordsOf(l, u) == SelectSeq(l, LAMBDA r : r.wallet = u)

\* C34: no step of an operation writes, in its unit of work or in the
\* committed state, the balance or the records of a wallet its call does not
\* name, whether the operation succeeds or fails.
C34_Framed ==
    [][\A p \in Procs :
          pc'[p] # pc[p] =>
              /\ DOMAIN txWrites'[p] \subseteq Involved(p)
              /\ \A i \in DOMAIN txRecs'[p] : txRecs'[p][i].wallet \in Involved(p)
              /\ \A u \in DOMAIN balance \ Involved(p) :
                     /\ balance'[u] = balance[u]
                     /\ RecordsOf(ledger', u) = RecordsOf(ledger, u)]_vars

\* a deposit into one wallet is committed and the other wallet is as it was
C34_Witness ==
    \E p \in Procs :
        /\ call[p].op = "Deposit" /\ Succeeded(p)
        /\ applied[p].balances = {call[p].from}
        /\ balance[call[p].from] > initBalance[call[p].from]
        /\ \E u \in DOMAIN balance \ {call[p].from} :
               balance[u] = initBalance[u] /\ RecordsOf(ledger, u) = <<>>

\* C35: an operation in progress has a step it can take whenever every other
\* open unit of work belongs to a call on other wallets only; and every
\* operation that was called returns.
C35_DisjointNeverWait ==
    /\ [](\A p \in Procs :
            (/\ pc[p] \notin {"idle", "done"}
             /\ \A q \in Procs \ {p} :
                    txStatus[q] = "none" \/ Involved(q) \cap Involved(p) = {}) =>
                ENABLED Step(p))
    /\ \A p \in Procs : (pc[p] # "idle") ~> Returned(p)

\* two calls on different wallets both hold the write lock of their row in
\* open units of work
C35_Witness ==
    \E p \in Procs, q \in Procs :
        /\ Involved(p) \cap Involved(q) = {}
        /\ txStatus[p] = "open" /\ rowLock[call[p].from] = p
        /\ txStatus[q] = "open" /\ rowLock[call[q].from] = q

\* C36: a returned Deposit or Withdraw of an amount that passed validation,
\* for a user who has no wallet and with no store failure, has failed with
\* the not-found error of the lookup and was rolled back; it wrote nothing,
\* and no wallet, balance or record came to exist.
C36_NoWalletNotFound ==
    \A p \in Procs :
        (/\ call[p].op \in {"Deposit", "Withdraw"} /\ Returned(p)
         /\ ret[p] \notin {ErrNonPositive, ErrStore}
         /\ call[p].from \notin DOMAIN initBalance) =>
            /\ ret[p] = ErrNoRows
            /\ closed[p] = "rollback"
            /\ applied[p] = NothingApplied
            /\ touched[p] = <<>>
            /\ call[p].from \notin DOMAIN balance
            /\ \A w \in wallets : w.user_id # call[p].from
            /\ RecordsOf(ledger, call[p].from) = <<>>

\* a deposit and a withdrawal for the user without a wallet have both failed
\* at the lookup and were rolled back
C36_Witness ==
    \E p \in Procs, q \in Procs :
        /\ call[p].op = "Deposit" /\ call[q].op = "Withdraw"
        /\ call[p].from \notin DOMAIN balance /\ call[q].from \notin DOMAIN balance
        /\ ret[p] = ErrNoRows /\ ret[q] = ErrNoRows
        /\ closed[p] = "rollback" /\ closed[q] = "rollback"
        /\ Returned(p) /\ Returned(q)

\* C37: the step at which opening the unit of work fails returns the store's
\* error at once and changes nothing in the store; a call that returned
\* this way has read no wallet, written nothing, and issued neither commit
\* nor rollback.
C37_BeginFailureReturns ==
    /\ [][\A p \in Procs :
            (pc[p] = "begin" /\ pc'[p] # "begin" /\ txStatus'[p] # "open") =>
                /\ pc'[p] = "done" /\ ret'[p] = ErrStore
                /\ UNCHANGED <<storeVars, touched, closed, applied, createdAt>>]_vars
    /\ [](\A p \in Procs :
            (Returned(p) /\ ret[p] = ErrStore /\ closed[p] = "none") =>
                /\ touched[p] = <<>>
                /\ applied[p] = NothingApplied
                /\ txStatus[p] = "none"
                /\ \A u \in Users : rowLock[u] # p)

\* a Transfer of a valid amount between two wallets returned the error of a
\* failed Begin
C37_Witness ==
    \E p \in Procs :
        /\ call[p].op = "Transfer" /\ Returned(p)
        /\ call[p].from \in DOMAIN balance /\ call[p].to \in DOMAIN balance
        /\ ret[p] = ErrStore /\ closed[p] = "none" /\ touched[p] = <<>>
        /\ balance = initBalance /\ ledger = <<>>

\* C38: the handler looks the source user up, then the destination, and
\* calls Transfer only after both lookups found their user; 'to_user_id not
\* found' is answered only after the source was found; and a Transfer whose
\* wallet read finds no row, the user having gone since the lookup, fails
\* with the not-found error, is rolled back and commits nothing.
C38_HandlerChecksUsers ==
    /\ [][\A p \in Procs :
            /\ (pc'[p] = "checkTo" /\ pc[p] # "checkTo") =>
                   pc[p] = "checkFrom" /\ \E u \in users : u.id = call[p].from
            /\ (pc'[p] = "call" /\ pc[p] # "call") =>
                   pc[p] = "checkTo" /\ \E u \in users : u.id = call[p].to
            /\ (pc'[p] = "begin" /\ pc[p] # "begin") => pc[p] = "call"
            /\ (ret'[p] = ErrToNotFound /\ ret[p] # ErrToNotFound) => pc[p] = "checkTo"
            /\ (/\ pc[p] \in {"getFrom", "getTo"} /\ pc'[p] # pc[p]
                /\ (IF pc[p] = "getFrom" THEN call[p].from ELSE call[p].to) \notin DOMAIN balance
                /\ ret'[p] # ErrStore) =>
                   ret'[p] = ErrNoRows /\ err'[p] = ErrNoRows /\ pc'[p] = "ret"]_vars
    /\ [](\A p \in Procs :
            (Returned(p) /\ ret[p] = ErrNoRows) =>
                closed[p] = "rollback" /\ applied[p] = NothingApplied)

\* both users were found by the handler, the source user was then deleted,
\* and the transfer failed with the not-found error and was rolled back
C38_Witness ==
    \E p \in Procs :
        /\ Returned(p) /\ ret[p] = ErrNoRows /\ closed[p] = "rollback"
        /\ call[p].from \in DOMAIN initBalance /\ call[p].from \notin DOMAIN balance
        /\ \A u \in users : u.id # call[p].from
        /\ touched[p] = <<>>

\* the limit and the offset a history request asks for, defaults applied
AskedLimit(r) == IF r[3].given THEN r[3].val ELSE DefaultLimit
AskedOffset(r) == IF r[4].given THEN r[4].val ELSE 0
Refused(r) ==
    \/ r[3].given /\ (~r[3].number \/ r[3].val < 1 \/ r[3].val > LargestLimit)
    \/ r[4].given /\ (~r[4].number \/ r[4].val < 0)
Smaller(a, b) == IF a < b THEN a ELSE b

\* C39: a history request with a limit outside 1..100 or a negative offset is
\* refused without any record; otherwise, the list txs of the wallet read, the
\* answer is txs[offset .. min(offset + limit, len(txs))), limit defaulting
\* to 50 and offset to 0: empty when offset >= len(txs), at most limit records.
C39_Pagination ==
    (Len(result.req) = 4 /\ result.req[1] = "GetTransactionHistory" /\ result.n > 0) =>
        LET r == result.req
            txs == TransactionsByWalletID(r[2]).rows
            last == Smaller(AskedOffset(r) + AskedLimit(r), Len(txs))
        IN  /\ Refused(r) => result.val.err # Nil /\ result.val.rows = <<>>
            /\ result.val.err # Nil => result.val.rows = <<>>
            /\ (~Refused(r) /\ result.val.err = Nil) =>
                  /\ Len(result.val.rows) <= AskedLimit(r)
                  /\ AskedOffset(r) >= Len(txs) => result.val.rows = <<>>
                  /\ AskedOffset(r) < Len(txs) =>
                        result.val.rows = [k \in 1..(last - AskedOffset(r)) |->
                                              txs[AskedOffset(r) + k]]
            /\ (~Refused(r) /\ r[2] \in DOMAIN balance /\ faults = 0) => result.val.err = Nil

\* a request without a limit, from the second record on, for a wallet of more
\* than 51 records: 50 records are returned, the most recent left out
C39_Witness ==
    /\ Len(result.req) = 4 /\ result.req[1] = "GetTransactionHistory" /\ result.n > 0
    /\ ~result.req[3].given /\ result.req[4] = Number(1)
    /\ Len(ledger) > DefaultLimit + 1
    /\ result.val.err = Nil /\ Len(result.val.rows) = DefaultLimit
    /\ result.val.rows[1].id = Len(ledger) - 1

====
